---- MODULE Spec2Model ----
(***************************************************************************)
(* A model of the graph-assembly and ontology-grounding engine of          *)
(* src/hibou/hibou_lib.py:                                                 *)
(*   - transform_obj_ids                        (identifier namespace)     *)
(*   - transform_statements_to_node_edge_lists  (statement transformer)    *)
(*   - ground_nodes_to_ontology, compute_onto_ancestry,                    *)
(*     generate_onto_groups                     (grounding and groups)     *)
(* Python dicts are records, Python lists are sequences, a raised          *)
(* exception is the name of the exception class.                           *)
(***************************************************************************)
EXTENDS Integers, Sequences, FiniteSets, TLC

VARIABLES
    id_arg,     \* the object handed to transform_obj_ids, as the caller sees it
    id_type,    \* the obj_type argument
    id_local0,  \* the local id the harness started from
    id_ret,     \* the value transform_obj_ids returned
    id_pc,      \* "local" | "encoded" | "decoded" | "raised"
    models,     \* model index -> the model dict of the transformer
    pc,         \* model index -> position of that model in the pipeline
    exc,        \* model index -> exception raised by the last task ("none")
    print_opt,  \* the print_opt argument of the run
    ran,        \* model index -> the tasks run on that model, in order
    preamble,   \* the result of get_obj_preamble, None before it ran
    s3_path,    \* model index -> the result of build_path_iter, None before
    s3,         \* the objects in the storage bucket: path -> body
    ontology,   \* the ontology, a NetworkX node-link JSON graph
    model_nodes,\* model['nodes'] of the model that is grounded
    nodeAtts,   \* model['nodeAtts']
    groups,     \* model['groups']
    ancestry,   \* the group_refs of the nodes at line 1541, before the pass
    onto_pc,    \* "sorted" | "grounded" | "ancestry" | "groups" | "failed"
    onto_exc    \* exception raised by the last grounding task ("none")

idVars == <<id_arg, id_type, id_local0, id_ret, id_pc>>
xfVars == <<models, pc, exc, print_opt, ran>>
loadVars == <<preamble, s3_path, s3>>
ontoVars == <<ontology, model_nodes, nodeAtts, groups, ancestry, onto_pc, onto_exc>>
vars == <<id_arg, id_type, id_local0, id_ret, id_pc, models, pc, exc, print_opt,
          ran, preamble, s3_path, s3,
          ontology, model_nodes, nodeAtts, groups, ancestry, onto_pc, onto_exc>>

\* Python None
None == <<>>

(***************************************************************************)
(* Generic helpers for Python lists.                                       *)
(***************************************************************************)
Range(s) == {s[i] : i \in DOMAIN s}

RECURSIVE SumSeq(_)
SumSeq(s) == IF s = <<>> THEN 0 ELSE Head(s) + SumSeq(Tail(s))

\* list.extend over a list of lists
RECURSIVE Flatten(_)
Flatten(ss) == IF ss = <<>> THEN <<>> ELSE Head(ss) \o Flatten(Tail(ss))

\* keys of a dict built by inserting the elements of s in order:
\* each distinct element once, at the place of its first occurrence
RECURSIVE DictKeys(_)
DictKeys(s) ==
    IF s = <<>> THEN <<>>
    ELSE LET init == DictKeys(SubSeq(s, 1, Len(s) - 1))
             last == s[Len(s)]
         IN  IF last \in Range(init) THEN init ELSE Append(init, last)

\* a list comprehension, evaluated to a list
List(f) == f \o <<>>

\* list.index(x): position (from 1) of the first occurrence
IndexOf(s, x) == CHOOSE i \in DOMAIN s : s[i] = x /\ \A j \in 1..(i - 1) : s[j] # x

(***************************************************************************)
(* Identifier namespace: transform_obj_ids.                                *)
(***************************************************************************)
num_bits_global == 32
num_bits_namespace == 4
num_bits_local == num_bits_global - num_bits_namespace

obj_types == <<"models", "tests", "paths", "edges", "evidences", "docs", "nodes", "groups">>

\* {t: i for i, t in enumerate(obj_types)}[obj_type]
map_type_namespace(obj_type) == IndexOf(obj_types, obj_type) - 1

RECURSIVE BitOr(_, _)
BitOr(a, b) ==
    IF a = 0 THEN b
    ELSE IF b = 0 THEN a
    ELSE (IF a % 2 = 1 \/ b % 2 = 1 THEN 1 ELSE 0) + 2 * BitOr(a \div 2, b \div 2)

RECURSIVE BitAnd(_, _)
BitAnd(a, b) ==
    IF a = 0 \/ b = 0 THEN 0
    ELSE (a % 2) * (b % 2) + 2 * BitAnd(a \div 2, b \div 2)

Shl(a, n) == a * (2 ^ n)
Shr(a, n) == a \div (2 ^ n)

\* (id_namespace << num_bits_local) | id_local
encode_id(obj_type, id_local) ==
    BitOr(Shl(map_type_namespace(obj_type), num_bits_local), id_local)

\* b = int(2.0 ** num_bits_local - 1.0); id_local = id_global & b
decode_id(id_global) == BitAnd(id_global, 2 ^ num_bits_local - 1)

\* (id_global & a) >> num_bits_local, with a the namespace mask shifted up;
\* written as a shift followed by the unshifted mask
decode_namespace(id_global) ==
    BitAnd(Shr(id_global, num_bits_local), 2 ^ num_bits_namespace - 1)

\* An object is [isdict |-> TRUE, id |-> n] (a record holding the id under
\* obj_id_key) or [isdict |-> FALSE, id |-> n] (a bare int).  The result is
\* [raised, ret, arg]: the exception raised ("none"), the returned value and
\* the caller's object after the call (a dict is updated in place).
transform_obj_ids(obj, obj_type, reverse) ==
    IF ~reverse
    THEN IF obj_type \notin Range(obj_types)
         THEN [raised |-> "KeyError", ret |-> obj, arg |-> obj]
         ELSE LET new == [obj EXCEPT !.id = encode_id(obj_type, obj.id)]
              IN  [raised |-> "none", ret |-> new,
                   arg |-> IF obj.isdict THEN new ELSE obj]
    ELSE \* line 637: obj[obj_id_key] = id_local runs for every type of obj
         IF ~obj.isdict
         THEN [raised |-> "TypeError", ret |-> obj, arg |-> obj]
         ELSE LET new == [obj EXCEPT !.id = decode_id(obj.id)]
              IN  [raised |-> "none", ret |-> new, arg |-> new]

(***************************************************************************)
(* Harness of the identifier operations: encode an id, then decode the     *)
(* returned value.                                                         *)
(***************************************************************************)
MaxSmallId == 3

\* local ids at both ends of the local range and, past its end, ids that
\* need more than num_bits_local bits
IdSamples ==
    (0..MaxSmallId)
    \cup {2 ^ num_bits_local - 1 - k : k \in 0..MaxSmallId}
    \cup {2 ^ k : k \in (num_bits_local - 1 - MaxSmallId)..(num_bits_local - 1)}
    \cup {2 ^ num_bits_local + k : k \in 0..MaxSmallId}
    \cup {3 * 2 ^ num_bits_local}

PipelineIdle ==
    /\ models = <<>>
    /\ pc = <<>>
    /\ exc = <<>>
    /\ print_opt = FALSE
    /\ ran = <<>>

\* nothing is loaded to the storage bucket
LoadIdle ==
    /\ preamble = <<>>
    /\ s3_path = <<>>
    /\ s3 = <<>>

OntoIdle ==
    /\ ontology = [nodes |-> <<>>, links |-> <<>>, directed |-> TRUE]
    /\ model_nodes = <<>>
    /\ nodeAtts = <<>>
    /\ groups = <<>>
    /\ ancestry = <<>>
    /\ onto_pc = "idle"
    /\ onto_exc = "none"

InitIds ==
    /\ id_local0 \in IdSamples
    /\ id_type \in Range(obj_types)
    /\ \E d \in BOOLEAN : id_arg = [isdict |-> d, id |-> id_local0]
    /\ id_ret = id_arg
    /\ id_pc = "local"
    /\ PipelineIdle
    /\ OntoIdle
    /\ LoadIdle

Encode ==
    /\ id_pc = "local"
    /\ LET r == transform_obj_ids(id_arg, id_type, FALSE)
       IN  /\ id_arg' = r.arg
           /\ id_ret' = r.ret
           /\ id_pc' = IF r.raised = "none" THEN "encoded" ELSE "raised"
    /\ UNCHANGED <<id_type, id_local0>>
    /\ UNCHANGED xfVars
    /\ UNCHANGED ontoVars
    /\ UNCHANGED loadVars

Decode ==
    /\ id_pc = "encoded"
    /\ LET r == transform_obj_ids(id_ret, id_type, TRUE)
       IN  /\ id_arg' = r.arg
           /\ id_ret' = r.ret
           /\ id_pc' = IF r.raised = "none" THEN "decoded" ELSE "raised"
    /\ UNCHANGED <<id_type, id_local0>>
    /\ UNCHANGED xfVars
    /\ UNCHANGED ontoVars
    /\ UNCHANGED loadVars

NextIds == Encode \/ Decode

SpecIds == InitIds /\ [][NextIds]_vars

(***************************************************************************)
(* Statement transformer: transform_statements_to_node_edge_lists.         *)
(* A statement is a record whose domain is its key set.  An agent is a     *)
(* record with the optional fields name and db_refs; db_refs and text_refs *)
(* are insertion-ordered dicts, modelled as sequences of <<key, value>>.   *)
(* A nullable field holds None or Some(value).                             *)
(***************************************************************************)
Some(v) == <<v>>

Digits == <<"0", "1", "2", "3", "4", "5", "6", "7", "8", "9">>

\* str() of an integer
RECURSIVE str(_)
str(n) ==
    IF n < 0 THEN "-" \o str(-n)
    ELSE IF n < 10 THEN Digits[n + 1]
    ELSE str(n \div 10) \o Digits[(n % 10) + 1]

\* the role patterns; the last one is the string 'members' (the parentheses
\* make no tuple), so iterating it or taking set() of it gives its characters
source_target_pairs == <<
    <<"subj", "obj">>,
    <<"enz", "sub">>,
    <<"gef", "ras">>,
    <<"gap", "ras">>,
    <<"subj", "obj_from", "obj_to">>,
    <<"m", "e", "m", "b", "e", "r", "s">> >>

\* set(p) <= set(s.keys())
PatternMatches(p, s) == Range(p) \subseteq DOMAIN s

\* bool_ind: number of patterns the statement matches (line 678)
bool_ind(s) ==
    SumSeq([i \in DOMAIN source_target_pairs |->
               IF PatternMatches(source_target_pairs[i], s) THEN 1 ELSE 0])

\* statements_processed (line 679)
statements_processed(statements) == SelectSeq(statements, LAMBDA s : bool_ind(s) # 0)

\* k (line 693): the 0-based indices of the matching patterns, in list order
MatchIdx(s) ==
    LET idx == [i \in DOMAIN source_target_pairs |-> i]
        hit == SelectSeq(idx, LAMBDA i : PatternMatches(source_target_pairs[i], s))
    IN  [j \in DOMAIN hit |-> hit[j] - 1]

HasAll(d, keys) == keys \subseteq DOMAIN d

\* an edge dict whose source and target entities are exchanged
EdgeDictReversed(model_id, s, src, tgt, polarity) ==
    [id |-> None,
     model_id |-> model_id,
     statement_id |-> str(s.matches_hash),
     statement_type |-> s.type,
     belief |-> s.belief,
     evidence_ids |-> None,
     doc_ids |-> None,
     source_node_id |-> None,
     source_node_name |-> tgt.name,
     source_node_db_refs |-> tgt.db_refs,
     target_node_id |-> None,
     target_node_name |-> src.name,
     target_node_db_refs |-> src.db_refs,
     tested |-> None,
     curated |-> None,
     directed |-> TRUE,
     polarity |-> polarity]

\* an edge dict that leaves the polarity null
EdgeDictNoPolarity(model_id, s, src, tgt, polarity) ==
    [id |-> None,
     model_id |-> model_id,
     statement_id |-> str(s.matches_hash),
     statement_type |-> s.type,
     belief |-> s.belief,
     evidence_ids |-> None,
     doc_ids |-> None,
     source_node_id |-> None,
     source_node_name |-> src.name,
     source_node_db_refs |-> src.db_refs,
     target_node_id |-> None,
     target_node_name |-> tgt.name,
     target_node_db_refs |-> tgt.db_refs,
     tested |-> None,
     curated |-> None,
     directed |-> TRUE,
     polarity |-> None]

\* the dict literal of one edge (lines 708-726 and alike)
EdgeDict(model_id, s, src, tgt, polarity) ==
    [id |-> None,
     model_id |-> model_id,
     statement_id |-> str(s.matches_hash),
     statement_type |-> s.type,
     belief |-> s.belief,
     evidence_ids |-> None,
     doc_ids |-> None,
     source_node_id |-> None,
     source_node_name |-> src.name,
     source_node_db_refs |-> src.db_refs,
     target_node_id |-> None,
     target_node_name |-> tgt.name,
     target_node_db_refs |-> tgt.db_refs,
     tested |-> None,
     curated |-> None,
     directed |-> TRUE,
     polarity |-> polarity]

TopKeys == {"matches_hash", "type", "belief"}
AgentKeys == {"name", "db_refs"}

\* perm (line 813), 1-based
perm(num_members) ==
    LET all == [n \in 1..(num_members * num_members) |->
                   <<((n - 1) \div num_members) + 1, ((n - 1) % num_members) + 1>>]
    IN  SelectSeq(all, LAMBDA x : x[1] # x[2])

\* One pass of the loop body of lines 689-838 for statement s:
\* [raised, edge] with edge the list the statement adds to edges.
StatementEdges(model_id, s) ==
    LET k == MatchIdx(s)
        ok(e) == [raised |-> "none", edge |-> e]
        ko(x) == [raised |-> x, edge |-> <<>>]
    IN  IF Len(k) < 1 THEN ok(<<>>)
        ELSE IF k[1] = 0 \/ k[1] \in {1, 2, 3}
        THEN LET src == source_target_pairs[k[1] + 1][1]
                 tgt == source_target_pairs[k[1] + 1][2]
             IN  IF ~HasAll(s, TopKeys) \/ ~HasAll(s[src], AgentKeys)
                        \/ ~HasAll(s[tgt], AgentKeys)
                 THEN ko("KeyError")
                 ELSE ok(<<EdgeDict(model_id, s, s[src], s[tgt],
                             IF k[1] = 0
                             THEN Some(s.type = "Activation" \/ s.type = "IncreaseAmount")
                             ELSE None)>>)
        ELSE IF k[1] = 4
        THEN IF ~HasAll(s, TopKeys) \/ ~HasAll(s.subj, AgentKeys) THEN ko("KeyError")
             ELSE IF Len(s.obj_from) = 0 THEN ko("IndexError")
             ELSE IF ~HasAll(s.obj_from[1], AgentKeys) THEN ko("KeyError")
             ELSE IF Len(s.obj_to) = 0 THEN ko("IndexError")
             ELSE IF ~HasAll(s.obj_to[1], AgentKeys) THEN ko("KeyError")
             ELSE ok(<<EdgeDict(model_id, s, s.subj, s.obj_from[1], Some(FALSE)),
                       EdgeDict(model_id, s, s.subj, s.obj_to[1], Some(TRUE))>>)
        ELSE \* k[0] == 5
             IF "members" \notin DOMAIN s THEN ko("KeyError")
             ELSE IF Len(s.members) > 0
             THEN LET pm == perm(Len(s.members))
                  IN  IF pm = <<>> THEN ok(<<>>)
                      ELSE IF ~HasAll(s, TopKeys)
                               \/ \E i \in DOMAIN s.members : ~HasAll(s.members[i], AgentKeys)
                      THEN ko("KeyError")
                      ELSE ok([n \in DOMAIN pm |->
                                  EdgeDict(model_id, s, s.members[pm[n][1]],
                                           s.members[pm[n][2]], None)])
             ELSE ok(<<>>)

\* transform_obj_ids(obj = record, obj_type = ...)['id'] for a record with local id
GlobalId(obj_type, id_local) ==
    transform_obj_ids([isdict |-> TRUE, id |-> id_local], obj_type, FALSE).ret.id

\* the edge loop (lines 688-838): [raised, edges]
ExtractEdges(model_id, processed) ==
    LET res == [i \in DOMAIN processed |-> StatementEdges(model_id, processed[i])]
        bad == {i \in DOMAIN res : res[i].raised # "none"}
    IN  IF bad # {}
        THEN [raised |-> res[CHOOSE i \in bad : \A j \in bad : i <= j].raised,
              edges |-> <<>>]
        ELSE [raised |-> "none", edges |-> Flatten([i \in DOMAIN res |-> res[i].edge])]

\* lines 841-848: local edge ids, then global ids
NumberEdges(edges) ==
    [i \in DOMAIN edges |-> [edges[i] EXCEPT !.id = GlobalId("edges", i - 1)]]

\* map_statements_edges[statement_id] (lines 852-855); a KeyError when no edge
\* carries the statement id
HasStatementEdges(edges, sid) == \E i \in DOMAIN edges : edges[i].statement_id = sid
map_statements_edges(edges, sid) ==
    LET own == SelectSeq(edges, LAMBDA e : e.statement_id = sid)
    IN  [i \in DOMAIN own |-> own[i].id]

\* the evidence dicts of one statement (lines 866-883)
StatementEvidences(s) ==
    IF "evidence" \notin DOMAIN s THEN <<>>
    ELSE [j \in DOMAIN s.evidence |->
             [text |-> IF "text" \in DOMAIN s.evidence[j]
                       THEN s.evidence[j].text ELSE None,
              text_refs |-> IF "text_refs" \in DOMAIN s.evidence[j]
                            THEN s.evidence[j].text_refs ELSE None,
              source_hash |-> str(s.evidence[j].source_hash),
              statement_id |-> str(s.matches_hash)]]

EvidenceKeyError(s) ==
    /\ "evidence" \in DOMAIN s
    /\ s.evidence # <<>>
    /\ \/ "matches_hash" \notin DOMAIN s
       \/ \E j \in DOMAIN s.evidence : "source_hash" \notin DOMAIN s.evidence[j]

\* evidences_all (lines 861-883)
evidences_all(processed) ==
    Flatten([i \in DOMAIN processed |-> StatementEvidences(processed[i])])

\* map_evidences_statements[k] (lines 887-889): one entry per evidentiary record
map_evidences_statements(evs, k) ==
    LET own == SelectSeq(evs, LAMBDA ev : ev.source_hash = k)
    IN  [i \in DOMAIN own |-> own[i].statement_id]

\* map_evidences_data[k] (line 893): a later record replaces an earlier one
map_evidences_data(evs, k) ==
    LET own == SelectSeq(evs, LAMBDA ev : ev.source_hash = k)
    IN  own[Len(own)]

\* [edge for s in statement_ids for edge in map_statements_edges[s]] (line 901)
StatementsEdgeIds(edges, statement_ids) ==
    Flatten([i \in DOMAIN statement_ids |-> map_statements_edges(edges, statement_ids[i])])

\* evidences (lines 894-910), with global ids
UniqueEvidences(model_id, edges, evs) ==
    LET keys == DictKeys([i \in DOMAIN evs |-> evs[i].source_hash])
    IN  [i \in DOMAIN keys |->
            [id |-> GlobalId("evidences", i - 1),
             model_id |-> model_id,
             text |-> map_evidences_data(evs, keys[i]).text,
             text_refs |-> map_evidences_data(evs, keys[i]).text_refs,
             source_hash |-> map_evidences_data(evs, keys[i]).source_hash,
             statement_ids |-> map_evidences_statements(evs, keys[i]),
             edge_ids |-> StatementsEdgeIds(edges, map_evidences_statements(evs, keys[i])),
             doc_ids |-> None]]

\* map_edges_evidences[edge_id] (lines 914-918)
map_edges_evidences(edges, evidences, edge_id) ==
    Flatten([i \in DOMAIN evidences |->
        LET hits == SelectSeq(StatementsEdgeIds(edges, evidences[i].statement_ids),
                              LAMBDA e : e = edge_id)
        IN  [j \in DOMAIN hits |-> evidences[i].id]])

\* hash(repr(text_refs)): repr lists the items in insertion order, so two dicts
\* get one key iff they hold the same items in the same order; the hash is
\* taken to be free of collisions
hash_repr(text_refs) == text_refs

\* str.lower() on the keys of text_refs
lower(k) ==
    CASE k = "PMID" -> "pmid"
      [] k = "DOI" -> "doi"
      [] k = "PMCID" -> "pmcid"
      [] OTHER -> k

HasTextRefs(ev) == ev.text_refs # None

\* docs (lines 927-956), with global ids
ExtractDocs(model_id, edges, evidences) ==
    LET withrefs == SelectSeq(evidences, HasTextRefs)
        keys == DictKeys([i \in DOMAIN withrefs |-> hash_repr(withrefs[i].text_refs[1])])
        of(h) == SelectSeq(withrefs, LAMBDA ev : hash_repr(ev.text_refs[1]) = h)
    IN  [i \in DOMAIN keys |->
            [id |-> GlobalId("docs", i - 1),
             model_id |-> model_id,
             evidence_ids |-> [j \in DOMAIN of(keys[i]) |-> of(keys[i])[j].id],
             edge_ids |-> Flatten([j \in DOMAIN of(keys[i]) |->
                             StatementsEdgeIds(edges, of(keys[i])[j].statement_ids)]),
             identifier |-> LET refs == of(keys[i])[Len(of(keys[i]))].text_refs[1]
                            IN  [n \in DOMAIN refs |->
                                    [type |-> lower(refs[n][1]), id |-> refs[n][2]]]]]

\* every edge listed under every doc of the model
DocsOfModel(docs, edge_id) == [i \in DOMAIN docs |-> docs[i].id]

\* map_edges_docs[edge_id] (lines 962-965): empty when the edge is in no doc
map_edges_docs(docs, edge_id) ==
    Flatten([i \in DOMAIN docs |->
        LET hits == SelectSeq(docs[i].edge_ids, LAMBDA e : e = edge_id)
        IN  [j \in DOMAIN hits |-> docs[i].id]])

\* nodes_name keys (lines 975-978): source names, then the new target names
nodes_name(edges) ==
    DictKeys([i \in DOMAIN edges |-> edges[i].source_node_name]
             \o [i \in DOMAIN edges |-> edges[i].target_node_name])

\* nodes_name[name]['db_refs'] after the loop of lines 981-985: the last
\* assignment wins, and within one edge the target's follows the source's
node_db_refs(edges, name) ==
    LET last == CHOOSE i \in DOMAIN edges :
                    /\ name \in {edges[i].source_node_name, edges[i].target_node_name}
                    /\ \A j \in DOMAIN edges :
                           name \in {edges[j].source_node_name, edges[j].target_node_name}
                               => j <= i
    IN  IF edges[last].target_node_name = name
        THEN edges[last].target_node_db_refs
        ELSE edges[last].source_node_db_refs

\* a filter that forgets TEXT_NORM
IsText(k) == k = "TEXT"

\* the namespaces left out of db_ids (line 993)
IsTextNamespace(k) == k = "TEXT" \/ k = "TEXT_NORM"

\* the ids of the edges that name the entity at either end
edge_ids_either(edges, name) ==
    LET own == SelectSeq(edges, LAMBDA e : e.source_node_name = name
                                               \/ e.target_node_name = name)
    IN  [i \in DOMAIN own |-> own[i].id]

\* nodes_name[name]['edge_ids_source'] and ['edge_ids_target'] (lines 984-985)
edge_ids_source(edges, name) ==
    LET own == SelectSeq(edges, LAMBDA e : e.source_node_name = name)
    IN  [i \in DOMAIN own |-> own[i].id]

edge_ids_target(edges, name) ==
    LET own == SelectSeq(edges, LAMBDA e : e.target_node_name = name)
    IN  [i \in DOMAIN own |-> own[i].id]

\* nodes (lines 988-1003), with global ids
ExtractNodes(model_id, edges) ==
    LET names == nodes_name(edges)
    IN  [i \in DOMAIN names |->
            LET refs == node_db_refs(edges, names[i])
                kept == SelectSeq(refs, LAMBDA kv : ~IsTextNamespace(kv[1]))
            IN  [id |-> GlobalId("nodes", i - 1),
                 model_id |-> model_id,
                 name |-> names[i],
                 grounded_db |-> Cardinality(({refs[n][1] : n \in DOMAIN refs}
                                                \ {"TEXT"}) \ {"TEXT_NORM"}) > 0,
                 db_ids |-> [n \in DOMAIN kept |->
                                [namespace |-> kept[n][1], id |-> kept[n][2]]],
                 edge_ids_source |-> edge_ids_source(edges, names[i]),
                 edge_ids_target |-> edge_ids_target(edges, names[i]),
                 in_degree |-> Len(edge_ids_target(edges, names[i])),
                 out_degree |-> Len(edge_ids_source(edges, names[i]))]]

\* map_names_nodes[name] (line 1007)
map_names_nodes(nodes, name) ==
    nodes[CHOOSE i \in DOMAIN nodes : nodes[i].name = name].id

\* lines 920-921: edge['evidence_ids']
SetEvidenceIds(edges, evidences) ==
    [i \in DOMAIN edges |->
        [edges[i] EXCEPT !.evidence_ids = map_edges_evidences(edges, evidences, edges[i].id)]]

\* lines 967-969: edge['doc_ids'], left None when the edge is in no doc
SetDocIds(edges, docs) ==
    [i \in DOMAIN edges |-> [edges[i] EXCEPT !.doc_ids = map_edges_docs(docs, edges[i].id)]]

\* lines 1008-1010: edge['source_node_id'], edge['target_node_id']
SetNodeIds(edges, nodes) ==
    [i \in DOMAIN edges |->
        [edges[i] EXCEPT
            !.source_node_id = map_names_nodes(nodes, edges[i].source_node_name),
            !.target_node_id = map_names_nodes(nodes, edges[i].target_node_name)]]

\* lines 1017-1020: model['edges'] = edges, ...
StoreLists(model, edges, nodes, evidences, docs) ==
    [edges |-> edges, nodes |-> nodes, evidences |-> evidences, docs |-> docs] @@ model

\* evaluates v once and hands the value to Op
Bind(v, Op(_)) == CHOOSE r \in {Op(x) : x \in {v}} : TRUE

\* lines 860-1010, once the edges carry their global ids
AfterEdges(model, processed, edges1) ==
    Bind(evidences_all(processed), LAMBDA evs :
      IF \E i \in DOMAIN evs : ~HasStatementEdges(edges1, evs[i].statement_id)
      THEN [raised |-> "KeyError", model |-> model]   \* line 901: map_statements_edges[s]
      ELSE
        Bind(UniqueEvidences(model.id, edges1, evs), LAMBDA evidences :
        Bind(SetEvidenceIds(edges1, evidences), LAMBDA edges2 :
        Bind(ExtractDocs(model.id, edges2, evidences), LAMBDA docs :
        Bind(SetDocIds(edges2, docs), LAMBDA edges3 :
        Bind(ExtractNodes(model.id, edges3), LAMBDA nodes :
          [raised |-> "none",
           model |-> StoreLists(model, SetNodeIds(edges3, nodes), nodes, evidences, docs)]))))))

\* The whole task (lines 652-1022): [raised, model].  model is the model dict
\* after the call; it is returned only when nothing was raised.
transform_statements_to_node_edge_lists(model, popt) ==
    IF Len(model.statements) > 0
    THEN Bind(statements_processed(model.statements), LAMBDA processed :
         Bind(ExtractEdges(model.id, processed), LAMBDA ex :
           IF ex.raised # "none" THEN [raised |-> ex.raised, model |-> model]
           ELSE IF \E i \in DOMAIN processed : EvidenceKeyError(processed[i])
           THEN [raised |-> "KeyError", model |-> model]
           ELSE AfterEdges(model, processed, NumberEdges(ex.edges))))
    ELSE IF popt
         THEN \* line 1014: num_edges was never assigned
              [raised |-> "UnboundLocalError", model |-> model]
         ELSE [raised |-> "none", model |-> StoreLists(model, <<>>, <<>>, <<>>, <<>>)]

(***************************************************************************)
(* Inputs of the transformer: statement batches built from a fixed set of  *)
(* statement shapes.  The statement at place i of a batch carries          *)
(* matches_hash = HashAt(i), so that statement ids are unique in a batch.  *)
(***************************************************************************)
AgA == [name |-> "A", db_refs |-> << <<"HGNC", "1">> >>]
AgB == [name |-> "B", db_refs |-> <<>>]
AgC == [name |-> "C", db_refs |-> << <<"TEXT", "c">>, <<"CHEBI", "2">> >>]
AgT == [name |-> "T", db_refs |-> << <<"TEXT", "t">>, <<"TEXT_NORM", "t">> >>]
AgA2 == [name |-> "A", db_refs |-> << <<"TEXT_NORM", "a">> >>]
AgNoName == [db_refs |-> << <<"HGNC", "1">> >>]
AgNoRefs == [name |-> "B"]

Ev1 == [source_hash |-> 11, text |-> Some("t1"), text_refs |-> Some(<< <<"PMID", "7">> >>)]
Ev1b == [source_hash |-> 11, text |-> Some("t2")]
Ev2 == [source_hash |-> 12, text_refs |-> Some(<< <<"PMID", "7">>, <<"DOI", "d">> >>)]
Ev2r == [source_hash |-> 13, text |-> None,
         text_refs |-> Some(<< <<"DOI", "d">>, <<"PMID", "7">> >>)]

\* well-formed statements, one or more per role pattern
GoodTemplates == {
    [type |-> "Activation", belief |-> 90, subj |-> AgA, obj |-> AgB, evidence |-> <<Ev1>>],
    [type |-> "Inhibition", belief |-> 50, subj |-> AgB, obj |-> AgC,
     evidence |-> <<Ev1, Ev1b>>],
    [type |-> "IncreaseAmount", belief |-> 100, subj |-> AgC, obj |-> AgA],
    [type |-> "Phosphorylation", belief |-> 70, enz |-> AgA, sub |-> AgC,
     evidence |-> <<Ev2>>],
    [type |-> "Gef", belief |-> 60, gef |-> AgA, ras |-> AgB, evidence |-> <<Ev2r>>],
    [type |-> "Gap", belief |-> 60, gap |-> AgC, ras |-> AgB, evidence |-> <<>>],
    [type |-> "Conversion", belief |-> 80, subj |-> AgA, obj_from |-> <<AgB>>,
     obj_to |-> <<AgC>>, evidence |-> <<Ev1b>>],
    [type |-> "Activation", belief |-> 90, subj |-> AgC, obj |-> AgB, enz |-> AgA,
     sub |-> AgB] }

\* an entity with text references only, and an entity that acts on itself
\* and is named twice with different references
NodeTemplates == {
    [type |-> "Inhibition", belief |-> 40, subj |-> AgT, obj |-> AgA, evidence |-> <<Ev2>>],
    [type |-> "Activation", belief |-> 30, subj |-> AgA, obj |-> AgA2] }

\* statements whose role key is `members`, with 1, 2 and 3 participants
MemberTemplates == {
    [type |-> "Complex", belief |-> 90, members |-> <<AgA>>],
    [type |-> "Complex", belief |-> 90, members |-> <<AgA, AgB>>, evidence |-> <<Ev1>>],
    [type |-> "Complex", belief |-> 90, members |-> <<AgA, AgB, AgC>>] }

\* statements that match no pattern, and one whose keys hold the characters
\* of 'members'
OddTemplates == {
    [type |-> "Autophosphorylation", belief |-> 90, enz |-> AgA, evidence |-> <<Ev2>>],
    [type |-> "Complex", belief |-> 90, members |-> <<AgA, AgC>>,
     m |-> 0, e |-> 0, b |-> 0, r |-> 0, s |-> 0] }

\* a statement without role keys whose keys hold the characters of 'members'
LetterTemplate == [type |-> "Complex", belief |-> 90,
                   m |-> 0, e |-> 0, b |-> 0, r |-> 0, s |-> 0]

\* statements that match a pattern and lack a required field
BrokenTemplates == {
    [type |-> "Activation", belief |-> 90, subj |-> AgNoName, obj |-> AgB],
    [type |-> "Activation", belief |-> 90, subj |-> AgA, obj |-> AgNoRefs],
    [type |-> "Activation", subj |-> AgA, obj |-> AgB],
    [belief |-> 90, enz |-> AgA, sub |-> AgB] }

\* three-role statements with two entities per list, and with an empty list
ConversionTemplates == {
    [type |-> "Conversion", belief |-> 20, subj |-> AgC, obj_from |-> <<AgA, AgB>>,
     obj_to |-> <<AgB, AgA>>, evidence |-> <<Ev1>>],
    [type |-> "Conversion", belief |-> 20, subj |-> AgC, obj_from |-> <<>>,
     obj_to |-> <<AgB>>] }

\* a statement that matches a pattern and has no matches_hash
HashlessTemplate == [type |-> "Activation", belief |-> 90, subj |-> AgA, obj |-> AgB,
                     nohash |-> TRUE]

Templates ==
    GoodTemplates \cup NodeTemplates \cup MemberTemplates \cup OddTemplates
        \cup BrokenTemplates \cup ConversionTemplates
        \cup {HashlessTemplate, LetterTemplate}

HashAt(i) == 100 + i

\* the statement a template stands for at place i of a batch
MkStatement(t, i) ==
    IF "nohash" \in DOMAIN t
    THEN [k \in DOMAIN t \ {"nohash"} |-> t[k]]
    ELSE t @@ ("matches_hash" :> HashAt(i))

MaxStatements == 2

Batches(T) ==
    UNION {[1..n -> T] : n \in 0..MaxStatements}

MkBatch(b) == [i \in DOMAIN b |-> MkStatement(b[i], i)]

IdsIdle ==
    /\ id_arg = [isdict |-> FALSE, id |-> 0]
    /\ id_type = "models"
    /\ id_local0 = 0
    /\ id_ret = id_arg
    /\ id_pc = "local"

\* one model, every batch of up to MaxStatements statements
InitXform ==
    /\ IdsIdle
    /\ OntoIdle
    /\ print_opt \in BOOLEAN
    /\ \E b \in Batches(Templates) :
           models = <<[id |-> 0, statements |-> MkBatch(b)]>>
    /\ pc = <<"statements">>
    /\ exc = <<"none">>
    /\ ran = << <<>> >>
    /\ LoadIdle

\* the mapped task transform_statements_to_node_edge_lists of model m
Transform(m) ==
    /\ pc[m] = "statements"
    /\ LET r == transform_statements_to_node_edge_lists(models[m], print_opt)
       IN  IF r.raised = "none"
           THEN /\ models' = [models EXCEPT ![m] = r.model]
                /\ pc' = [pc EXCEPT ![m] = "transformed"]
                /\ exc' = exc
           ELSE /\ models' = models
                /\ pc' = [pc EXCEPT ![m] = "failed"]
                /\ exc' = [exc EXCEPT ![m] = r.raised]
    /\ ran' = [ran EXCEPT ![m] = Append(@, "transform_statements_to_node_edge_lists")]
    /\ UNCHANGED print_opt
    /\ UNCHANGED idVars
    /\ UNCHANGED ontoVars
    /\ UNCHANGED loadVars

NextXform == \E m \in DOMAIN models : Transform(m)

SpecXform == InitXform /\ [][NextXform]_vars

(***************************************************************************)
(* Several models in one run: the task is mapped over the models, one      *)
(* task run per model, in any order.                                       *)
(***************************************************************************)
NumModels == 2

FlowTemplates == {
    [type |-> "Activation", belief |-> 90, subj |-> AgA, obj |-> AgB, evidence |-> <<Ev1>>],
    [type |-> "Phosphorylation", belief |-> 70, enz |-> AgA, sub |-> AgC,
     evidence |-> <<Ev2>>],
    [type |-> "Conversion", belief |-> 80, subj |-> AgA, obj_from |-> <<AgB>>,
     obj_to |-> <<AgC>>, evidence |-> <<Ev1b>>] }

\* extract_models_tests_paths_from_emmaa numbers the models from 0
InitFlow ==
    /\ IdsIdle
    /\ OntoIdle
    /\ print_opt \in BOOLEAN
    /\ \E bs \in [1..NumModels -> Batches(FlowTemplates)] :
           models = [m \in 1..NumModels |-> [id |-> m - 1, statements |-> MkBatch(bs[m])]]
    /\ pc = [m \in 1..NumModels |-> "statements"]
    /\ exc = [m \in 1..NumModels |-> "none"]
    /\ ran = [m \in 1..NumModels |-> <<>>]
    /\ LoadIdle

NextFlow == \E m \in DOMAIN models : Transform(m)

SpecFlow == InitFlow /\ [][NextFlow]_vars

(***************************************************************************)
(* Grounding of the model nodes to the ontology.  The ontology is the      *)
(* node-link JSON graph: nodes [id, name], links [source, target, type].   *)
(* A link points from a term to the broader term.                          *)
(***************************************************************************)

\* ontology_ids.keys() (line 1412)
ontology_ids(onto) == {onto.nodes[i].id : i \in DOMAIN onto.nodes}

\* the f-string of line 1426
db_ref(db_id) == db_id.namespace \o ":" \o db_id.id

\* grounding by the first reference of the node that is a term of the
\* ontology, whatever its place in db_ids
GroundNodeAny(node, onto) ==
    IF \E k \in DOMAIN node.db_ids : db_ref(node.db_ids[k]) \in ontology_ids(onto)
    THEN [node_id |-> node.id,
          db_ref_priority |->
              Some(db_ref(node.db_ids[
                  CHOOSE k \in DOMAIN node.db_ids :
                      /\ db_ref(node.db_ids[k]) \in ontology_ids(onto)
                      /\ \A l \in 1..(k - 1) :
                             db_ref(node.db_ids[l]) \notin ontology_ids(onto)])),
          grounded_group |-> TRUE, type |-> None, group_ids |-> None,
          group_refs |-> None, node_group_level |-> None]
    ELSE [node_id |-> node.id,
          db_ref_priority |-> IF Len(node.db_ids) < 1 THEN None
                              ELSE Some(db_ref(node.db_ids[1])),
          grounded_group |-> FALSE, type |-> None, group_ids |-> None,
          group_refs |-> <<"not-grounded">>, node_group_level |-> Some(1)]

\* one element of nodeAtts (lines 1400-1438)
GroundNode(node, onto) ==
    IF Len(node.db_ids) < 1
    THEN [node_id |-> node.id, db_ref_priority |-> None, grounded_group |-> FALSE,
          type |-> None, group_ids |-> None, group_refs |-> <<"not-grounded">>,
          node_group_level |-> Some(1)]
    ELSE IF db_ref(node.db_ids[1]) \in ontology_ids(onto)
    THEN [node_id |-> node.id, db_ref_priority |-> Some(db_ref(node.db_ids[1])),
          grounded_group |-> TRUE, type |-> None, group_ids |-> None,
          group_refs |-> None, node_group_level |-> None]
    ELSE [node_id |-> node.id, db_ref_priority |-> Some(db_ref(node.db_ids[1])),
          grounded_group |-> FALSE, type |-> None, group_ids |-> None,
          group_refs |-> <<"not-grounded">>, node_group_level |-> Some(1)]

\* model['nodeAtts'] as ground_nodes_to_ontology leaves it
ground_nodes_to_ontology(mnodes, onto) ==
    [i \in DOMAIN mnodes |-> GroundNode(mnodes[i], onto)]

\* the nodes of G = node_link_graph(ontology) (line 1472)
G_nodes(onto) ==
    ontology_ids(onto)
    \cup {onto.links[k].source : k \in DOMAIN onto.links}
    \cup {onto.links[k].target : k \in DOMAIN onto.links}

\* the targets of the links that leave u
successors(onto, u) ==
    {onto.links[k].target : k \in {j \in DOMAIN onto.links : onto.links[j].source = u}}

\* G.out_degree(u): the number of links that leave u
out_degree(onto, u) ==
    Cardinality({k \in DOMAIN onto.links : onto.links[k].source = u})

\* the terms joined to a term of S by a link, in either direction
Adjacent(onto, S) ==
    {onto.links[k].target : k \in {j \in DOMAIN onto.links : onto.links[j].source \in S}}
    \cup {onto.links[k].source : k \in {j \in DOMAIN onto.links : onto.links[j].target \in S}}

RECURSIVE Grow(_, _)
Grow(onto, S) ==
    IF Adjacent(onto, S) \subseteq S THEN S ELSE Grow(onto, S \cup Adjacent(onto, S))

\* the weakly connected component of u
weakly_connected_component(onto, u) == Grow(onto, {u})

\* nx.weakly_connected_components(G) (line 1476), as a set of components
comps(onto) == {weakly_connected_component(onto, u) : u \in G_nodes(onto)}

\* the terms that are a root of a non-trivial component
Roots(onto) ==
    {u \in G_nodes(onto) :
        out_degree(onto, u) < 1 /\ Cardinality(weakly_connected_component(onto, u)) > 1}

\* every order in which the elements of S can be listed
Orderings(S) ==
    {o \in [1..Cardinality(S) -> S] : \A i, j \in 1..Cardinality(S) : o[i] = o[j] => i = j}

\* comp_roots[j] (line 1480): the roots of a component, listed in the
\* iteration order of the component, a Python set of strings; `order` lists
\* the roots of all non-trivial components in that iteration order
comp_roots(onto, comp, order) ==
    SelectSeq(order, LAMBDA t : t \in comp /\ out_degree(onto, t) < 1)

\* every path without a repeated term from source to target
RECURSIVE SimplePaths(_, _, _, _)
SimplePaths(onto, source, target, seen) ==
    IF source = target
    THEN {<<source>>}
    ELSE UNION {{<<source>> \o p : p \in SimplePaths(onto, v, target, seen \cup {v})} :
                  v \in successors(onto, source) \ seen}

\* the paths nx shortest_path(G.subgraph(comps[j]), source, target) can
\* return (line 1512): the paths with the fewest links; none is NetworkXNoPath
shortest_path(onto, source, target) ==
    Bind(SimplePaths(onto, source, target, {source}), LAMBDA ps :
        {p \in ps : \A q \in ps : Len(p) <= Len(q)})

\* list[::-1]
Reversed(p) == List([i \in 1..Len(p) |-> p[Len(p) + 1 - i]])

\* z of lines 1508-1516: for every root that source reaches, in the order of
\* comp_roots[j], the paths shortest_path can return
PathsToRoots(onto, roots, source) ==
    SelectSeq(List([k \in DOMAIN roots |-> shortest_path(onto, source, roots[k])]),
              LAMBDA ps : ps # {})

\* len(p) of the path to one root
PathLen(ps) == Len(CHOOSE p \in ps : TRUE)

\* z[0] without the sort of line 1522: the path to the first root reached
FirstReached(z) == z[1]

\* z[0] after the stable sort of line 1522: the path to the first of the
\* reached roots that is no farther than any other
FirstShortest(z) ==
    z[CHOOSE k \in DOMAIN z :
          /\ \A l \in DOMAIN z : PathLen(z[k]) <= PathLen(z[l])
          /\ \A l \in 1..(k - 1) : PathLen(z[l]) > PathLen(z[k])]

\* a source that reaches no root is filed under not-grounded
StrandedAsNotGrounded(onto, order, source) ==
    IF Cardinality(weakly_connected_component(onto, source)) <= 1
    THEN {<<source>>}
    ELSE Bind(comp_roots(onto, weakly_connected_component(onto, source), order),
         LAMBDA roots :
            IF source \in Range(roots)
            THEN {<<source>>}
            ELSE Bind(PathsToRoots(onto, roots, source), LAMBDA z :
                 IF Len(z) > 0
                 THEN {Reversed(p) : p \in FirstShortest(z)}
                 ELSE {<<"not-grounded">>}))

\* the values nodeAtts[i]['group_refs'] can take at lines 1496-1537 for a
\* grounded node
ShortestAncestries(onto, order, source) ==
    IF Cardinality(weakly_connected_component(onto, source)) <= 1
    THEN {<<source>>}
    ELSE Bind(comp_roots(onto, weakly_connected_component(onto, source), order),
         LAMBDA roots :
            IF source \in Range(roots)
            THEN {<<source>>}
            ELSE Bind(PathsToRoots(onto, roots, source), LAMBDA z :
                 IF Len(z) > 0
                 THEN {Reversed(p) : p \in FirstShortest(z)}
                 ELSE {<<source>>}))

\* the db_ref_priority of the grounded nodes: the sources of line 1498
Sources(atts) ==
    {atts[i].db_ref_priority[1] : i \in {j \in DOMAIN atts : atts[j].grounded_group}}

\* shortest_path is a function of the graph, source and target: every way
\* to pick, for each source, one of the paths it can return
RECURSIVE PathChoices(_, _, _)
PathChoices(onto, order, S) ==
    IF S = {}
    THEN {<<>>}
    ELSE Bind(CHOOSE s \in S : TRUE, LAMBDA s :
         {(s :> p) @@ f : p \in ShortestAncestries(onto, order, s),
                          f \in PathChoices(onto, order, S \ {s})})

\* group_refs of line 1541: the group_refs of every node after the loop of
\* lines 1496-1537
ShortestRefs(atts, choice) ==
    List([i \in DOMAIN atts |->
            IF atts[i].grounded_group
            THEN choice[atts[i].db_ref_priority[1]]
            ELSE atts[i].group_refs])

\* max([len(path) for path in group_refs]) (lines 1542, 1642)
MaxPathLen(group_refs) ==
    CHOOSE n \in {Len(group_refs[j]) : j \in DOMAIN group_refs} :
        \A j \in DOMAIN group_refs : Len(group_refs[j]) <= n

\* x of lines 1546 and 1643: the term of every path at depth i (from 0)
TermsAtDepth(group_refs, i) ==
    List([j \in DOMAIN group_refs |->
            IF Len(group_refs[j]) > i THEN group_refs[j][i + 1] ELSE ""])

\* a round that substitutes nothing: every path keeps its own first terms
KeepSegments(group_refs, i) == group_refs

\* a round that takes the first i terms from the first path that is deep
\* enough, whatever term that path has at depth i
SubstituteFirstPath(group_refs, i) ==
    Bind(TermsAtDepth(group_refs, i), LAMBDA x :
        List([j \in DOMAIN group_refs |->
                IF x[j] # ""
                THEN SubSeq(group_refs[CHOOSE k \in DOMAIN x :
                                          x[k] # "" /\ \A l \in 1..(k - 1) : x[l] = ""], 1, i)
                     \o SubSeq(group_refs[j], i + 1, Len(group_refs[j]))
                ELSE group_refs[j]]))

\* one round of the loop of lines 1543-1568: every path with a term at
\* depth i takes the first i terms of the first path that has that term there
SubstituteSegments(group_refs, i) ==
    Bind(TermsAtDepth(group_refs, i), LAMBDA x :
        List([j \in DOMAIN group_refs |->
                IF x[j] # ""
                THEN SubSeq(group_refs[IndexOf(x, x[j])], 1, i)
                     \o SubSeq(group_refs[j], i + 1, Len(group_refs[j]))
                ELSE group_refs[j]]))

\* the loop of lines 1543-1568, for i in range(i, m)
RECURSIVE EnsureSameLineage(_, _, _)
EnsureSameLineage(group_refs, i, m) ==
    IF i >= m
    THEN group_refs
    ELSE EnsureSameLineage(SubstituteSegments(group_refs, i), i + 1, m)

\* nodeAtts after lines 1496-1573, from the paths before and after the pass
SetAncestry(atts, refs0, refs) ==
    [i \in DOMAIN atts |->
        [atts[i] EXCEPT
            !.group_refs = refs[i],
            !.node_group_level =
                IF atts[i].grounded_group THEN Some(Len(refs0[i])) ELSE @,
            !.type = Some(refs[i][1])]]

\* compute_onto_ancestry: [raised, nodeAtts, ancestry]; max() of an empty
\* list at line 1542 is a ValueError
compute_onto_ancestry(atts, onto, order, choice) ==
    Bind(ShortestRefs(atts, choice), LAMBDA refs0 :
        IF Len(atts) = 0
        THEN [raised |-> "ValueError", nodeAtts |-> atts, ancestry |-> refs0]
        ELSE [raised |-> "none", ancestry |-> refs0,
              nodeAtts |-> SetAncestry(atts, refs0,
                               EnsureSameLineage(refs0, 1, MaxPathLen(refs0)))])

(***************************************************************************)
(* generate_onto_groups.                                                   *)
(***************************************************************************)

\* every ref a path can hold, in the order of Python's string comparison
SortedRefs ==
    <<"FPLX:B", "FPLX:B2", "FPLX:R", "HGNC:A", "HGNC:C", "UP:X", "not-grounded">>

\* np.unique(...)[0] (line 1603): the refs of the paths, sorted
unique(group_refs) ==
    SelectSeq(SortedRefs, LAMBDA r : \E j \in DOMAIN group_refs : r \in Range(group_refs[j]))

\* the number of occurrences of ref in the paths
CountRef(group_refs, ref) ==
    SumSeq([j \in DOMAIN group_refs |->
               Cardinality({k \in DOMAIN group_refs[j] : group_refs[j][k] = ref})])

\* np.unique(..., return_counts = True)[1] (line 1603)
unique_counts(group_refs) ==
    Bind(unique(group_refs), LAMBDA u :
        List([k \in DOMAIN u |-> CountRef(group_refs, u[k])]))

\* np.argsort(size)[::-1] (line 1606), positions from 1: descending size;
\* the sort keeps equal sizes in their order and the reversal turns it round
argsort_reversed(size) ==
    List([p \in DOMAIN size |->
            CHOOSE a \in DOMAIN size :
                Cardinality({b \in DOMAIN size :
                    size[b] > size[a] \/ (size[b] = size[a] /\ b > a)}) = p - 1])

\* groups_['ref'] (line 1607)
groups_ref(group_refs) ==
    Bind(unique(group_refs), LAMBDA u :
    Bind(argsort_reversed(unique_counts(group_refs)), LAMBDA i :
        List([p \in DOMAIN u |-> u[i[p]]])))

\* groups_['id'] (lines 1609, 1614)
groups_id(refs) ==
    List([p \in DOMAIN refs |->
            transform_obj_ids([isdict |-> FALSE, id |-> p - 1], "groups", FALSE).ret.id])

\* groups_['name'][i] (lines 1622-1638)
group_name(onto, ref) ==
    IF ref \in ontology_ids(onto)
    THEN Bind(onto.nodes[CHOOSE k \in DOMAIN onto.nodes : onto.nodes[k].id = ref].name,
         LAMBDA name :
            IF name = None THEN ref
            ELSE IF Len(name[1]) = 0 THEN ref
            ELSE name[1])
    ELSE ref

\* groups_['level'][i] (lines 1642-1644): the first depth that holds ref
group_level(group_refs, ref) ==
    CHOOSE d \in 0..(MaxPathLen(group_refs) - 1) :
        /\ ref \in Range(TermsAtDepth(group_refs, d))
        /\ \A e \in 0..(d - 1) : ref \notin Range(TermsAtDepth(group_refs, e))

\* x[ref] of line 1648
RefId(refs, ids, ref) == ids[IndexOf(refs, ref)]

\* the parent taken to be the top of the path: in the first path that holds
\* ref, its first term
TopAsParent(group_refs, ref) ==
    Bind(group_refs[CHOOSE j \in DOMAIN group_refs :
                       /\ ref \in Range(group_refs[j])
                       /\ \A k \in 1..(j - 1) : ref \notin Range(group_refs[k])],
         LAMBDA path :
            IF IndexOf(path, ref) > 1 THEN Some(path[1]) ELSE None)

\* groups_['parent_ref'][i] (lines 1655-1656): in the first path that holds
\* ref, the term before it
parent_ref(group_refs, ref) ==
    Bind(group_refs[CHOOSE j \in DOMAIN group_refs :
                       /\ ref \in Range(group_refs[j])
                       /\ \A k \in 1..(j - 1) : ref \notin Range(group_refs[k])],
         LAMBDA path :
            IF IndexOf(path, ref) > 1 THEN Some(path[IndexOf(path, ref) - 1]) ELSE None)

\* groups_['parent_id'][i] (line 1657)
parent_id(group_refs, refs, ids, ref) ==
    Bind(parent_ref(group_refs, ref), LAMBDA parent :
        IF parent # None THEN Some(RefId(refs, ids, parent[1])) ELSE None)

\* the positions of s that satisfy Test, in order
Where(s, Test(_)) == SelectSeq(List([j \in DOMAIN s |-> j]), Test)

\* the children filed under the child instead of the parent: each group
\* lists its own parent
ParentsAsChildren(ids, parent_ids, group_id) == parent_ids[IndexOf(ids, group_id)]

\* map_selves_children[group_id] (lines 1661-1664)
map_selves_children(ids, parent_ids, group_id) ==
    Bind(Where(ids, LAMBDA j : parent_ids[j] = Some(group_id)), LAMBDA at :
        List([n \in DOMAIN at |-> ids[at[n]]]))

\* membership by the first term of the path only
NodeIdsOfTop(atts, group_refs, ref) ==
    Bind(Where(atts, LAMBDA j : ref = group_refs[j][1]), LAMBDA at :
        List([n \in DOMAIN at |-> atts[at[n]].node_id]))

\* groups_['node_ids_all'][i] (line 1670)
node_ids_all(atts, group_refs, ref) ==
    Bind(Where(atts, LAMBDA j : ref \in Range(group_refs[j])), LAMBDA at :
        List([n \in DOMAIN at |-> atts[at[n]].node_id]))

\* direct membership taken for every term of the path, not the last only
NodeIdsUnderTerm(atts, group_refs, ref) ==
    Bind(Where(atts, LAMBDA j : ref \in Range(group_refs[j])), LAMBDA at :
        List([n \in DOMAIN at |-> atts[at[n]].node_id]))

\* groups_['node_ids_direct'][i] (line 1674)
node_ids_direct(atts, group_refs, ref) ==
    Bind(Where(atts, LAMBDA j : ref = group_refs[j][Len(group_refs[j])]), LAMBDA at :
        List([n \in DOMAIN at |-> atts[at[n]].node_id]))

\* model['groups'] (line 1682)
GroupRows(atts, onto, model_id, group_refs, refs, size, ids, parent_ids) ==
    [p \in DOMAIN refs |->
        [ref |-> refs[p],
         size |-> size[p],
         id |-> ids[p],
         id_onto |-> refs[p],
         name |-> group_name(onto, refs[p]),
         level |-> group_level(group_refs, refs[p]),
         parent_ref |-> parent_ref(group_refs, refs[p]),
         parent_id |-> parent_ids[p],
         children_ids |-> map_selves_children(ids, parent_ids, ids[p]),
         node_ids_all |-> node_ids_all(atts, group_refs, refs[p]),
         node_ids_direct |-> node_ids_direct(atts, group_refs, refs[p]),
         model_id |-> model_id]]

\* node['group_ids'] (lines 1650-1651)
SetGroupIds(atts, refs, ids) ==
    [i \in DOMAIN atts |->
        [atts[i] EXCEPT
            !.group_ids = List([k \in DOMAIN atts[i].group_refs |->
                                   RefId(refs, ids, atts[i].group_refs[k])])]]

\* group_refs of line 1601
PathsOf(atts) == List([i \in DOMAIN atts |-> atts[i].group_refs])

\* generate_onto_groups: [raised, nodeAtts, groups]; max() of an empty list
\* at line 1642 is a ValueError
generate_onto_groups(atts, onto, model_id) ==
    IF Len(atts) = 0
    THEN [raised |-> "ValueError", nodeAtts |-> atts, groups |-> <<>>]
    ELSE Bind(PathsOf(atts), LAMBDA group_refs :
         Bind(groups_ref(group_refs), LAMBDA refs :
         Bind(groups_id(refs), LAMBDA ids :
            [raised |-> "none",
             nodeAtts |-> SetGroupIds(atts, refs, ids),
             groups |-> GroupRows(atts, onto, model_id, group_refs, refs,
                            unique_counts(group_refs), ids,
                            List([p \in DOMAIN refs |->
                                     parent_id(group_refs, refs, ids, refs[p])]))])))

(***************************************************************************)
(* The grounding tasks of one model, in the order of the flow:             *)
(* ground_nodes_to_ontology, compute_onto_ancestry, generate_onto_groups.  *)
(***************************************************************************)
MaxNodes == 2

\* ontology['nodes']: a term with a name, with an empty name, without name
OntoNodes ==
    <<[id |-> "FPLX:R", name |-> Some("Ras")],
      [id |-> "FPLX:B", name |-> Some("")],
      [id |-> "FPLX:B2", name |-> None],
      [id |-> "HGNC:A", name |-> Some("KRAS")],
      [id |-> "HGNC:C", name |-> None]>>

\* the links an ontology is drawn from: a chain C -> A -> B -> R, a second
\* way A -> B2 -> R of the same length, a short cut C -> B2 and a link
\* R -> A that closes a cycle; B and B2 are roots where their link to R is
\* left out
CandidateLinks ==
    <<[source |-> "HGNC:A", target |-> "FPLX:B", type |-> "isa"],
      [source |-> "HGNC:A", target |-> "FPLX:B2", type |-> "isa"],
      [source |-> "FPLX:B", target |-> "FPLX:R", type |-> "partof"],
      [source |-> "FPLX:B2", target |-> "FPLX:R", type |-> "isa"],
      [source |-> "HGNC:C", target |-> "HGNC:A", type |-> "isa"],
      [source |-> "HGNC:C", target |-> "FPLX:B2", type |-> "isa"],
      [source |-> "FPLX:R", target |-> "HGNC:A", type |-> "partof"]>>

Ontologies ==
    {[nodes |-> OntoNodes,
      links |-> SelectSeq(CandidateLinks, LAMBDA l : l \in ls),
      directed |-> TRUE] : ls \in SUBSET Range(CandidateLinks)}
    \cup {[nodes |-> <<>>, links |-> <<>>, directed |-> TRUE]}

\* node['db_ids'] after sort_nodes_groundings: none, a term of the ontology,
\* a reference that is no term, and a term behind a reference that is none
Groundings ==
    {<<>>,
     <<[namespace |-> "HGNC", id |-> "A"]>>,
     <<[namespace |-> "HGNC", id |-> "C"], [namespace |-> "UP", id |-> "X"]>>,
     <<[namespace |-> "FPLX", id |-> "B"]>>,
     <<[namespace |-> "UP", id |-> "X"], [namespace |-> "HGNC", id |-> "A"]>>}

\* a model of up to MaxNodes nodes, numbered by the transformer
InitOnto ==
    /\ IdsIdle
    /\ PipelineIdle
    /\ LoadIdle
    /\ ontology \in Ontologies
    /\ \E n \in 0..MaxNodes : \E g \in [1..n -> Groundings] :
           model_nodes = [i \in 1..n |-> [id |-> GlobalId("nodes", i - 1), db_ids |-> g[i]]]
    /\ nodeAtts = <<>>
    /\ groups = <<>>
    /\ ancestry = <<>>
    /\ onto_pc = "sorted"
    /\ onto_exc = "none"

\* the task ground_nodes_to_ontology
GroundNodes ==
    /\ onto_pc = "sorted"
    /\ nodeAtts' = ground_nodes_to_ontology(model_nodes, ontology)
    /\ onto_pc' = "grounded"
    /\ UNCHANGED <<ontology, model_nodes, groups, ancestry, onto_exc>>
    /\ UNCHANGED idVars
    /\ UNCHANGED xfVars
    /\ UNCHANGED loadVars

\* the task compute_onto_ancestry, for every iteration order of the roots
\* and every choice of shortest paths
ComputeAncestry ==
    /\ onto_pc = "grounded"
    /\ \E order \in Orderings(Roots(ontology)) :
       \E choice \in PathChoices(ontology, order, Sources(nodeAtts)) :
           LET r == compute_onto_ancestry(nodeAtts, ontology, order, choice)
           IN  /\ nodeAtts' = r.nodeAtts
               /\ ancestry' = r.ancestry
               /\ onto_pc' = IF r.raised = "none" THEN "ancestry" ELSE "failed"
               /\ onto_exc' = r.raised
    /\ UNCHANGED <<ontology, model_nodes, groups>>
    /\ UNCHANGED idVars
    /\ UNCHANGED xfVars
    /\ UNCHANGED loadVars

\* the task generate_onto_groups
GenerateGroups ==
    /\ onto_pc = "ancestry"
    /\ LET r == generate_onto_groups(nodeAtts, ontology, 0)
       IN  /\ nodeAtts' = r.nodeAtts
           /\ groups' = r.groups
           /\ onto_pc' = IF r.raised = "none" THEN "groups" ELSE "failed"
           /\ onto_exc' = r.raised
    /\ UNCHANGED <<ontology, model_nodes, ancestry>>
    /\ UNCHANGED idVars
    /\ UNCHANGED xfVars
    /\ UNCHANGED loadVars

NextOnto == GroundNodes \/ ComputeAncestry \/ GenerateGroups

SpecOnto == InitOnto /\ [][NextOnto]_vars

(***************************************************************************)
(* The flow from the statements to the groups.  transform_ontology runs    *)
(* once on the ontology object; the stage tasks are mapped over the        *)
(* models, one task run per model and stage, and a task run of a model     *)
(* starts when the run of the stage before it, on the same model, and its  *)
(* unmapped inputs are done.  Task results are the objects themselves      *)
(* (LocalExecutor), so a task changes the dict it is given.                *)
(***************************************************************************)

\* the validation of the ontology alone: every link is kept
validate_ontology(onto) ==
    IF ~({"nodes", "links", "directed"} \subseteq DOMAIN onto)
    THEN [raised |-> "TypeError", ontology |-> onto]
    ELSE [raised |-> "none", ontology |-> onto]

\* transform_ontology (lines 1258-1284): [raised, ontology]
transform_ontology(onto) ==
    IF ~({"nodes", "links", "directed"} \subseteq DOMAIN onto)
    THEN [raised |-> "TypeError", ontology |-> onto]
    ELSE [raised |-> "none",
          ontology |-> [onto EXCEPT
                           !.links = SelectSeq(onto.links, LAMBDA l : l.type # "xref")]]

\* the flow parameter namespaces_priority, split at the blanks (line 1306)
namespaces_priority ==
    <<"FPLX", "UPPRO", "HGNC", "UP", "CHEBI", "GO", "MESH", "MIRBASE", "DOID", "HP", "EFO">>

\* the namespaces of the inputs, in the order of Python's string comparison
SortedNamespaces ==
    <<"CHEBI", "DOID", "EFO", "FPLX", "GO", "HGNC", "HP", "MESH", "MIRBASE", "NCIT",
      "PUBCHEM", "UP", "UPPRO">>

\* sorted(list(S)) for a set S of namespaces
sorted(S) == SelectSeq(SortedNamespaces, LAMBDA n : n \in S)

\* the parts behind the colon in the ids of the ontology terms
LocalParts == {"R", "B", "B2", "A", "C", "Z"}

\* re.findall('\w{1,}(?=:)', id) (line 1310): the word before the colon
findall(id) ==
    sorted({ns \in Range(SortedNamespaces) : \E l \in LocalParts : id = ns \o ":" \o l})

\* namespaces_onto and namespaces_model (lines 1310-1311)
namespaces_onto(onto) == {findall(onto.nodes[i].id)[1] : i \in DOMAIN onto.nodes}

namespaces_model(nodes) ==
    UNION {{nodes[i].db_ids[j].namespace : j \in DOMAIN nodes[i].db_ids} : i \in DOMAIN nodes}

\* namespaces_ordered (lines 1319-1321)
namespaces_ordered(nodes, onto) ==
    namespaces_priority
        \o sorted(namespaces_model(nodes) \ Range(namespaces_priority))
        \o sorted((namespaces_onto(onto) \ Range(namespaces_priority))
                      \ namespaces_model(nodes))

\* generate_ordered_namespace_list (lines 1290-1355): [raised, model]
generate_ordered_namespace_list(model, onto, popt) ==
    IF ~({"nodes", "links", "directed"} \subseteq DOMAIN onto)
    THEN [raised |-> "TypeError", model |-> model]
    ELSE IF "nodes" \notin DOMAIN model
    THEN [raised |-> "KeyError", model |-> model]
    ELSE IF \E i \in DOMAIN onto.nodes : findall(onto.nodes[i].id) = <<>>
    THEN [raised |-> "IndexError", model |-> model]
    ELSE IF popt /\ "id_emmaa" \notin DOMAIN model
    THEN [raised |-> "KeyError", model |-> model]
    ELSE [raised |-> "none",
          model |-> [namespaces_ordered |-> namespaces_ordered(model.nodes, onto)]
                        @@ model]

\* node['db_ids'] as sort_nodes_groundings leaves it (lines 1374-1375): the
\* dict keeps the last id of a namespace, the list follows the ordered list
SortedDbIds(db_ids, ordered) ==
    LET keys == SelectSeq(ordered,
                    LAMBDA k : \E j \in DOMAIN db_ids : db_ids[j].namespace = k)
        last(k) == CHOOSE j \in DOMAIN db_ids :
                       /\ db_ids[j].namespace = k
                       /\ \A i \in DOMAIN db_ids : db_ids[i].namespace = k => i <= j
    IN  [n \in DOMAIN keys |-> [namespace |-> keys[n], id |-> db_ids[last(keys[n])].id]]

\* sort_nodes_groundings (lines 1361-1378): [raised, model]
sort_nodes_groundings(model) ==
    IF "nodes" \notin DOMAIN model \/ "namespaces_ordered" \notin DOMAIN model
    THEN [raised |-> "KeyError", model |-> model]
    ELSE [raised |-> "none",
          model |-> [model EXCEPT
                        !.nodes = [i \in DOMAIN model.nodes |->
                                      [model.nodes[i] EXCEPT
                                          !.db_ids = SortedDbIds(model.nodes[i].db_ids,
                                                         model.namespaces_ordered)]]]]

\* ground_nodes_to_ontology on the model dict (lines 1384-1445)
GroundModel(model, onto) ==
    IF ~({"nodes", "links", "directed"} \subseteq DOMAIN onto)
    THEN [raised |-> "TypeError", model |-> model]
    ELSE IF "nodes" \notin DOMAIN model
    THEN [raised |-> "KeyError", model |-> model]
    ELSE [raised |-> "none",
          model |-> [nodeAtts |-> ground_nodes_to_ontology(model.nodes, onto)] @@ model]

\* compute_onto_ancestry on the model dict (lines 1451-1587); with print_opt
\* the message of line 1584 divides by the number of components
AncestryOfModel(model, onto, popt, order, choice) ==
    IF ~({"nodes", "links", "directed"} \subseteq DOMAIN onto)
    THEN [raised |-> "TypeError", model |-> model]
    ELSE IF "nodes" \notin DOMAIN model \/ "nodeAtts" \notin DOMAIN model
    THEN [raised |-> "KeyError", model |-> model]
    ELSE LET r == compute_onto_ancestry(model.nodeAtts, onto, order, choice)
         IN  IF r.raised # "none" THEN [raised |-> r.raised, model |-> model]
             ELSE [raised |-> IF popt /\ comps(onto) = {}
                              THEN "ZeroDivisionError" ELSE "none",
                   model |-> [model EXCEPT !.nodeAtts = r.nodeAtts]]

\* generate_onto_groups on the model dict (lines 1593-1692)
GroupsOfModel(model, onto, popt) ==
    IF "nodeAtts" \notin DOMAIN model THEN [raised |-> "KeyError", model |-> model]
    ELSE
    LET r == generate_onto_groups(model.nodeAtts, onto, model.id)
    IN  IF r.raised # "none" THEN [raised |-> r.raised, model |-> model]
        ELSE [raised |-> IF popt /\ "id_emmaa" \notin DOMAIN model
                         THEN "KeyError" ELSE "none",
              model |-> [groups |-> r.groups] @@ [model EXCEPT !.nodeAtts = r.nodeAtts]]

\* the positions of a model in the flow: before each mapped task (lines
\* 338-340 and 452-503) and after the last
Stages ==
    <<"statements", "transformed", "namespaces", "sorted", "grounded", "ancestry", "groups">>

\* the mapped tasks of lines 338-340 and 452-503, in the order of the script
StageTasks ==
    <<"transform_statements_to_node_edge_lists", "generate_ordered_namespace_list",
      "sort_nodes_groundings", "ground_nodes_to_ontology", "compute_onto_ancestry",
      "generate_onto_groups">>

\* the task that takes a model on from a position
TaskAt(stage) == StageTasks[CHOOSE i \in DOMAIN Stages : Stages[i] = stage]

\* what the task waiting at a stage can return for a model dict; the root
\* order and the choice among equally short paths are open in
\* compute_onto_ancestry
TaskResults(stage, model, onto, popt) ==
    CASE stage = "statements" -> {transform_statements_to_node_edge_lists(model, popt)}
      [] stage = "transformed" -> {generate_ordered_namespace_list(model, onto, popt)}
      [] stage = "namespaces" -> {sort_nodes_groundings(model)}
      [] stage = "sorted" -> {GroundModel(model, onto)}
      [] stage = "grounded" ->
             UNION {{AncestryOfModel(model, onto, popt, order, choice) :
                        choice \in PathChoices(onto, order, Sources(model.nodeAtts))} :
                    order \in Orderings(Roots(onto))}
      [] stage = "ancestry" -> {GroupsOfModel(model, onto, popt)}
      [] OTHER -> {}

\* entities of the flow's models: references in an order that the priority
\* list changes, a namespace outside the priority list, a term that only an
\* xref link ties to others
PgK == [name |-> "KRAS",
        db_refs |-> << <<"TEXT", "kras">>, <<"UP", "X">>, <<"HGNC", "A">> >>]
PgR == [name |-> "RAF", db_refs |-> << <<"PUBCHEM", "9">>, <<"FPLX", "B">> >>]
PgC == [name |-> "C", db_refs |-> << <<"HGNC", "C">> >>]

PipeTemplates == <<
    [type |-> "Activation", belief |-> 90, subj |-> PgK, obj |-> PgR, evidence |-> <<Ev1>>],
    [type |-> "Phosphorylation", belief |-> 70, enz |-> PgC, sub |-> AgB,
     evidence |-> <<Ev2>>] >>

\* the statement lists of a model: none, one statement, two statements
PipeBatches ==
    {<<>>, <<PipeTemplates[2]>>, <<PipeTemplates[2], PipeTemplates[1]>>}

\* the ontology as extracted: A is below the two roots B and B2, an xref
\* link ties C to A, Z has a namespace outside the priority list; and the
\* ontology without terms
PipeOntologies ==
    {[nodes |-> OntoNodes \o <<[id |-> "NCIT:Z", name |-> None]>>,
      links |-> <<[source |-> "HGNC:A", target |-> "FPLX:B", type |-> "isa"],
                  [source |-> "HGNC:C", target |-> "HGNC:A", type |-> "xref"],
                  [source |-> "HGNC:A", target |-> "FPLX:B2", type |-> "isa"]>>,
      directed |-> TRUE],
     [nodes |-> <<>>, links |-> <<>>, directed |-> TRUE]}

\* response['models'] of the EMMAA API (line 288)
EmmaaIds == <<"aml", "brca", "covid19", "marm_model", "painmachine">>

InitPipe ==
    /\ IdsIdle
    /\ print_opt \in BOOLEAN
    /\ ontology \in PipeOntologies
    /\ \E bs \in [1..NumModels -> PipeBatches] :
           models = [m \in 1..NumModels |->
                        [id |-> m - 1, id_emmaa |-> EmmaaIds[m],
                         statements |-> MkBatch(bs[m])]]
    /\ pc = [m \in 1..NumModels |-> "statements"]
    /\ exc = [m \in 1..NumModels |-> "none"]
    /\ ran = [m \in 1..NumModels |-> <<>>]
    /\ preamble = None
    /\ s3_path = [m \in 1..NumModels |-> None]
    /\ s3 = <<>>
    /\ model_nodes = <<>>
    /\ nodeAtts = <<>>
    /\ groups = <<>>
    /\ ancestry = <<>>
    /\ onto_pc = "extracted"
    /\ onto_exc = "none"

\* the task transform_ontology (prefect_hibou_pipe.py lines 448-451)
TransformOntology ==
    /\ onto_pc = "extracted"
    /\ LET r == transform_ontology(ontology)
       IN  /\ ontology' = r.ontology
           /\ onto_pc' = IF r.raised = "none" THEN "preprocessed" ELSE "failed"
           /\ onto_exc' = r.raised
    /\ UNCHANGED <<model_nodes, nodeAtts, groups, ancestry>>
    /\ UNCHANGED idVars
    /\ UNCHANGED xfVars
    /\ UNCHANGED loadVars

\* one run of the task that waits at stage from, on model m
StageTask(m, from, to) ==
    /\ pc[m] = from
    /\ \E r \in TaskResults(from, models[m], ontology, print_opt) :
           /\ models' = [models EXCEPT ![m] = r.model]
           /\ pc' = [pc EXCEPT ![m] = IF r.raised = "none" THEN to ELSE "failed"]
           /\ exc' = [exc EXCEPT ![m] = r.raised]
    /\ ran' = [ran EXCEPT ![m] = Append(@, TaskAt(from))]
    /\ UNCHANGED print_opt
    /\ UNCHANGED idVars
    /\ UNCHANGED ontoVars
    /\ UNCHANGED loadVars

\* a task that takes the namespaces of the model from the nodes of every
\* model of the run
OrderNamespacesOfRun(m) ==
    /\ onto_pc = "preprocessed"
    /\ pc[m] = "transformed"
    /\ models' = [models EXCEPT ![m] =
                     [namespaces_ordered |->
                         namespaces_ordered(
                             Flatten([k \in DOMAIN models |->
                                         IF "nodes" \in DOMAIN models[k]
                                         THEN models[k].nodes ELSE <<>>]),
                             ontology)] @@ models[m]]
    /\ pc' = [pc EXCEPT ![m] = "namespaces"]
    /\ ran' = [ran EXCEPT ![m] = Append(@, TaskAt("transformed"))]
    /\ UNCHANGED <<exc, print_opt>>
    /\ UNCHANGED idVars
    /\ UNCHANGED ontoVars
    /\ UNCHANGED loadVars

\* generate_ordered_namespace_list.map (lines 452-457): waits for ontology_
OrderNamespaces(m) ==
    /\ onto_pc = "preprocessed"
    /\ StageTask(m, "transformed", "namespaces")

\* sort_nodes_groundings.map (lines 458-460)
SortGroundings(m) == StageTask(m, "namespaces", "sorted")

\* ground_nodes_to_ontology mapped over the result of
\* generate_ordered_namespace_list instead of sort_nodes_groundings
GroundNodesUnsorted(m) ==
    /\ onto_pc = "preprocessed"
    /\ pc[m] = "namespaces"
    /\ \E r \in TaskResults("sorted", models[m], ontology, print_opt) :
           /\ models' = [models EXCEPT ![m] = r.model]
           /\ pc' = [pc EXCEPT ![m] = IF r.raised = "none" THEN "grounded" ELSE "failed"]
           /\ exc' = [exc EXCEPT ![m] = r.raised]
    /\ ran' = [ran EXCEPT ![m] = Append(@, TaskAt("sorted"))]
    /\ UNCHANGED print_opt
    /\ UNCHANGED idVars
    /\ UNCHANGED ontoVars
    /\ UNCHANGED loadVars

\* ground_nodes_to_ontology.map (lines 461-465): waits for ontology_
GroundNodesOfModel(m) ==
    /\ onto_pc = "preprocessed"
    /\ StageTask(m, "sorted", "grounded")

\* compute_onto_ancestry.map (lines 490-494)
ComputeAncestryOfModel(m) == StageTask(m, "grounded", "ancestry")

\* generate_onto_groups.map (lines 499-503)
GenerateGroupsOfModel(m) == StageTask(m, "ancestry", "groups")

NextPipe ==
    \/ TransformOntology
    \/ \E m \in DOMAIN models : Transform(m)
    \/ \E m \in DOMAIN models : OrderNamespaces(m)
    \/ \E m \in DOMAIN models : SortGroundings(m)
    \/ \E m \in DOMAIN models : GroundNodesOfModel(m)
    \/ \E m \in DOMAIN models : ComputeAncestryOfModel(m)
    \/ \E m \in DOMAIN models : GenerateGroupsOfModel(m)

SpecPipe == InitPipe /\ [][NextPipe]_vars

(***************************************************************************)
(* The whole flow of one run: the stages above, then the groups of every   *)
(* model are loaded to the storage bucket (prefect_hibou_pipe.py lines     *)
(* 506-523).  build_path_iter and load_obj_to_s3 are mapped over the       *)
(* models; get_obj_preamble has no upstream task and runs at any time.     *)
(***************************************************************************)

\* obj_types_valid (line 82)
obj_types_valid ==
    {"models", "tests", "paths", "edges", "evidences", "docs", "docLayout", "nodes",
     "nodeLayout", "nodeAtts", "groups", "groupLayout"}

\* the keys of the preamble of an object type (lines 87-232), in the order
\* of the dict; the values are descriptions of the keys
PreambleKeys(obj_type) ==
    CASE obj_type = "models" ->
             <<"id", "id_emmaa", "name", "description", "test_ids", "snapshot_time">>
      [] obj_type = "tests" ->
             <<"id", "id_emmaa", "name", "model_ids", "snapshot_time">>
      [] obj_type = "paths" ->
             <<"id", "model_id", "test_id", "test_statement_id", "type", "edge_ids",
               "node_ids">>
      [] obj_type = "edges" ->
             <<"id", "model_id", "statement_id", "statement_type", "belief",
               "evidence_ids", "doc_ids", "source_node_id", "target_node_id", "tested",
               "test_path_ids", "curated", "directed", "polarity">>
      [] obj_type = "evidences" -> <<"id", "model_id", "text">>
      [] obj_type = "docs" -> <<"id", "model_id", "evidence_ids", "edge_ids", "identifier">>
      [] obj_type = "docLayout" -> <<"doc_id", "coor_sys_name", "coors">>
      [] obj_type = "nodes" ->
             <<"id", "model_id", "name", "grounded_db", "db_ids", "edge_ids_source",
               "edge_ids_target", "out_degree", "in_degree">>
      [] obj_type = "nodeLayout" -> <<"node_id", "coor_sys_name", "coors">>
      [] obj_type = "nodeAtts" ->
             <<"node_id", "grounded_group", "type", "group_ids", "node_group_level">>
      [] obj_type = "groups" ->
             <<"id", "id_onto", "name", "level", "parent_id", "children_ids", "model_id",
               "node_ids_all", "node_ids_direct">>
      [] obj_type = "groupLayout" -> <<"node_id", "coor_sys_name", "coors">>

\* get_obj_preamble (lines 78-232): [raised, ret]
get_obj_preamble(obj_type) ==
    IF obj_type \notin obj_types_valid
    THEN [raised |-> "ValueError", ret |-> None]
    ELSE [raised |-> "none", ret |-> PreambleKeys(obj_type)]

RECURSIVE build_path(_)
\* build_path (lines 35-53) on a list of strings
build_path(path) ==
    IF path = <<>> THEN "" ELSE Head(path) \o build_path(Tail(path))

\* s3_path_storage (line 79), from the defaults of the flow parameters
s3_path_storage == build_path(<<"research/BIO/dist", "/", "v4.0", "/", "hibou", "/">>)

\* build_path_iter (lines 57-74) on a dict path_iter: [raised, ret]
build_path_iter(path, path_, path_iter, key_iter) ==
    IF key_iter \notin DOMAIN path_iter
    THEN [raised |-> "KeyError", ret |-> None]
    ELSE [raised |-> "none", ret |-> path \o path_iter[key_iter] \o path_]

\* item_ of line 545: the keys of the preamble, None for a key the item lacks
item_(item, keys) ==
    [k \in Range(keys) |-> IF k \in DOMAIN item THEN item[k] ELSE None]

\* the text load_obj_to_s3 writes for a list (lines 534-552): the preamble
\* line, then one line per item; a line is held as the dict that is dumped
Lines(obj, keys) ==
    [preamble |-> keys, items |-> [i \in DOMAIN obj |-> item_(obj[i], keys)]]

\* load_obj_to_s3 (lines 500-580) on a dict obj, up to the S3 request:
\* [raised, body]
load_obj_to_s3(obj, keys, obj_key) ==
    IF obj_key \notin DOMAIN obj
    THEN [raised |-> "KeyError", body |-> None]
    ELSE [raised |-> "none", body |-> Lines(obj[obj_key], keys)]

\* the statement lists of a model of the whole flow
RunBatches == {<<>>, <<PipeTemplates[2], PipeTemplates[1]>>}

InitRun ==
    /\ IdsIdle
    /\ print_opt \in BOOLEAN
    /\ ontology \in PipeOntologies
    /\ \E bs \in [1..NumModels -> RunBatches] :
           models = [m \in 1..NumModels |->
                        [id |-> m - 1, id_emmaa |-> EmmaaIds[m],
                         statements |-> MkBatch(bs[m])]]
    /\ pc = [m \in 1..NumModels |-> "statements"]
    /\ exc = [m \in 1..NumModels |-> "none"]
    /\ ran = [m \in 1..NumModels |-> <<>>]
    /\ preamble = None
    /\ s3_path = [m \in 1..NumModels |-> None]
    /\ s3 = <<>>
    /\ model_nodes = <<>>
    /\ nodeAtts = <<>>
    /\ groups = <<>>
    /\ ancestry = <<>>
    /\ onto_pc = "extracted"
    /\ onto_exc = "none"

\* the task get_obj_preamble(obj_type = 'groups') (line 515)
GetObjPreamble ==
    /\ preamble = None
    /\ preamble' = Some(get_obj_preamble("groups").ret)
    /\ UNCHANGED <<s3_path, s3>>
    /\ UNCHANGED idVars
    /\ UNCHANGED xfVars
    /\ UNCHANGED ontoVars

\* build_path_iter.map (lines 508-514): the path of the groups of model m
BuildPathIter(m) ==
    /\ pc[m] = "groups"
    /\ s3_path[m] = None
    /\ LET r == build_path_iter(s3_path_storage, "/groups.jsonl", models[m], "id_emmaa")
       IN  /\ s3_path' = [s3_path EXCEPT ![m] = IF r.raised = "none" THEN Some(r.ret) ELSE @]
           /\ pc' = [pc EXCEPT ![m] = IF r.raised = "none" THEN @ ELSE "failed"]
           /\ exc' = [exc EXCEPT ![m] = r.raised]
    /\ ran' = [ran EXCEPT ![m] = Append(@, "build_path_iter")]
    /\ UNCHANGED <<models, print_opt, preamble, s3>>
    /\ UNCHANGED idVars
    /\ UNCHANGED ontoVars

\* load_obj_to_s3.map (lines 516-523): waits for the model, its path and
\* the preamble; a request that fails is passed over (lines 577-580)
LoadGroups(m) ==
    /\ pc[m] = "groups"
    /\ s3_path[m] # None
    /\ preamble # None
    /\ LET r == load_obj_to_s3(models[m], preamble[1], "groups")
       IN  /\ pc' = [pc EXCEPT ![m] = IF r.raised = "none" THEN "loaded" ELSE "failed"]
           /\ exc' = [exc EXCEPT ![m] = r.raised]
           /\ \E put \in BOOLEAN :
                  s3' = IF r.raised = "none" /\ put
                        THEN (s3_path[m][1] :> r.body) @@ s3
                        ELSE s3
    /\ ran' = [ran EXCEPT ![m] = Append(@, "load_obj_to_s3")]
    /\ UNCHANGED <<models, print_opt, preamble, s3_path>>
    /\ UNCHANGED idVars
    /\ UNCHANGED ontoVars

NextRun ==
    \/ TransformOntology
    \/ GetObjPreamble
    \/ \E m \in DOMAIN models : Transform(m)
    \/ \E m \in DOMAIN models : OrderNamespaces(m)
    \/ \E m \in DOMAIN models : SortGroundings(m)
    \/ \E m \in DOMAIN models : GroundNodesOfModel(m)
    \/ \E m \in DOMAIN models : ComputeAncestryOfModel(m)
    \/ \E m \in DOMAIN models : GenerateGroupsOfModel(m)
    \/ \E m \in DOMAIN models : BuildPathIter(m)
    \/ \E m \in DOMAIN models : LoadGroups(m)

SpecRun == InitRun /\ [][NextRun]_vars

(***************************************************************************)
(* The tested status of the edges: test_edges, on a model that holds its   *)
(* edges (transform_statements_to_node_edge_lists) and its test paths      *)
(* (reduce_paths_by_model).                                                *)
(***************************************************************************)

\* the edge ids the paths list, one after the other (the two loops of
\* lines 1190-1193 run over them in this order)
PathEdgeIds(paths) == Flatten(List([p \in DOMAIN paths |-> paths[p].edge_ids]))

\* map_edges_paths (lines 1190-1193) at key edge_id: the id of a path once
\* for every time the path lists the edge
map_edges_paths(paths, edge_id) ==
    Flatten(List([p \in DOMAIN paths |->
        List([k \in DOMAIN SelectSeq(paths[p].edge_ids, LAMBDA x : x = edge_id) |->
                 paths[p].id])]))

\* lines 1200-1201: edge_id is the variable of the loop of line 1192, which
\* holds the last edge id that loop went over
TestedEdge(paths, edge) ==
    ("test_path_ids" :> map_edges_paths(paths, PathEdgeIds(paths)[Len(PathEdgeIds(paths))]))
        @@ [edge EXCEPT !.tested = Some(TRUE)]

\* lines 1204-1205: the key written is test_paths_ids
UntestedEdge(edge) ==
    ("test_paths_ids" :> <<>>) @@ [edge EXCEPT !.tested = Some(FALSE)]

\* lines 1197-1205, one edge
TestEdge(paths, edge) ==
    IF edge.id \in Range(PathEdgeIds(paths))
    THEN TestedEdge(paths, edge)
    ELSE UntestedEdge(edge)

\* test_edges (lines 1175-1213): [raised, model]
test_edges(model, popt) ==
    IF "paths" \notin DOMAIN model \/ "edges" \notin DOMAIN model
    THEN [raised |-> "KeyError", model |-> model]
    ELSE Bind([model EXCEPT !.edges =
                   List([e \in DOMAIN model.edges |-> TestEdge(model.paths, model.edges[e])])],
              LAMBDA tested :
                  IF popt /\ "id_emmaa" \notin DOMAIN model
                  THEN [raised |-> "KeyError", model |-> tested]
                  ELSE [raised |-> "none", model |-> tested])

MaxPaths == 2
MaxPathEdges == 2

\* the statements of the model under test: three edges
TestBatch == <<
    [type |-> "Activation", belief |-> 90, subj |-> AgA, obj |-> AgB, evidence |-> <<Ev1>>],
    [type |-> "Phosphorylation", belief |-> 70, enz |-> AgA, sub |-> AgC,
     evidence |-> <<Ev2>>],
    [type |-> "IncreaseAmount", belief |-> 100, subj |-> AgC, obj |-> AgA] >>

\* the model as transform_statements_to_node_edge_lists leaves it
TransformedModel ==
    transform_statements_to_node_edge_lists(
        [id |-> 0, id_emmaa |-> "aml", statements |-> MkBatch(TestBatch)], FALSE).model

\* edge_ids of a path (line 1140): ids of edges of the model, an edge as
\* often as the steps of the path name its statement
PathEdgeLists(model) ==
    UNION {[1..n -> {model.edges[e].id : e \in DOMAIN model.edges}] : n \in 0..MaxPathEdges}

\* model['paths'] (lines 1134-1159): the paths numbered from 0, with their
\* global ids
PathLists(model) ==
    {List([p \in DOMAIN es |->
              [id |-> GlobalId("paths", p - 1), model_id |-> model.id,
               edge_ids |-> es[p]]]) :
        es \in UNION {[1..n -> PathEdgeLists(model)] : n \in 0..MaxPaths}}

\* one model with its edges; with its paths, or before reduce_paths_by_model
\* has given it any
InitTest ==
    /\ IdsIdle
    /\ OntoIdle
    /\ LoadIdle
    /\ print_opt \in BOOLEAN
    /\ \/ models = <<TransformedModel>>
       \/ \E paths \in PathLists(TransformedModel) :
              models = <<("paths" :> paths) @@ TransformedModel>>
    /\ pc = <<"paths">>
    /\ exc = <<"none">>
    /\ ran = << <<>> >>

\* the task test_edges on model m; the edges are updated in place, also
\* when the message of line 1210 raises
TestEdges(m) ==
    /\ pc[m] = "paths"
    /\ LET r == test_edges(models[m], print_opt)
       IN  /\ models' = [models EXCEPT ![m] = r.model]
           /\ pc' = [pc EXCEPT ![m] = IF r.raised = "none" THEN "tested" ELSE "failed"]
           /\ exc' = [exc EXCEPT ![m] = r.raised]
    /\ ran' = [ran EXCEPT ![m] = Append(@, "test_edges")]
    /\ UNCHANGED print_opt
    /\ UNCHANGED idVars
    /\ UNCHANGED ontoVars
    /\ UNCHANGED loadVars

NextTest == \E m \in DOMAIN models : TestEdges(m)

SpecTest == InitTest /\ [][NextTest]_vars

(***************************************************************************)
(* C1: identifier round trip.  For every kind and every local id below     *)
(* 2^28, decoding the encoded value gives the local id back, for a bare    *)
(* integer and for a record holding the id: after Encode the harness can   *)
(* only end "decoded" with the starting id, never "raised".                *)
(***************************************************************************)
C1_RoundTrip ==
    id_local0 < 2 ^ num_bits_local =>
        /\ id_pc # "raised"
        /\ id_pc = "decoded" => id_ret.id = id_local0

\* the part of C1 the code keeps: the round trip of an id held in a record
C1_RoundTripDict ==
    (id_local0 < 2 ^ num_bits_local /\ id_pc = "decoded" /\ id_ret.isdict)
        => id_ret.id = id_local0

C1_DictDecoded ==
    id_pc = "decoded" /\ id_ret.isdict /\ id_local0 = 2 ^ num_bits_local - 1
        /\ id_type = "groups"

(***************************************************************************)
(* Records of a transformed model, for the claims below.                   *)
(***************************************************************************)
Transformed(m) == m \in DOMAIN pc /\ pc[m] = "transformed"

\* every record the transformer emitted for model m, tagged <<m, kind, place>>
EmittedIds(m) ==
    {<<m, "edges", i, models[m].edges[i].id>> : i \in DOMAIN models[m].edges}
    \cup {<<m, "evidences", i, models[m].evidences[i].id>> : i \in DOMAIN models[m].evidences}
    \cup {<<m, "docs", i, models[m].docs[i].id>> : i \in DOMAIN models[m].docs}
    \cup {<<m, "nodes", i, models[m].nodes[i].id>> : i \in DOMAIN models[m].nodes}

NoDuplicates(s) == \A i, j \in DOMAIN s : i # j => s[i] # s[j]

(***************************************************************************)
(* C2: GlobalIDs are globally unique: no two distinct records produced in  *)
(* one run, of any kind and of any model, carry the same id.               *)
(***************************************************************************)
C2_GloballyUnique ==
    \A m1, m2 \in DOMAIN models :
        (Transformed(m1) /\ Transformed(m2)) =>
            \A r1 \in EmittedIds(m1), r2 \in EmittedIds(m2) :
                r1 # r2 => r1[4] # r2[4]

\* what the code keeps: the ids are unique among the records of one model
C2_UniqueWithinModel ==
    \A m \in DOMAIN models :
        Transformed(m) =>
            \A r1, r2 \in EmittedIds(m) : r1 # r2 => r1[4] # r2[4]

(***************************************************************************)
(* C3: a statement whose role key is `members`, with k >= 1 participants   *)
(* and no other role pattern, yields exactly k*(k-1) directed edges, one   *)
(* per ordered pair of distinct participants, each with polarity null.     *)
(***************************************************************************)
IsMembersStatement(s) ==
    /\ "members" \in DOMAIN s
    /\ Len(s.members) >= 1
    /\ \A i \in 1..5 : ~PatternMatches(source_target_pairs[i], s)

EdgesOfStatement(m, s) ==
    SelectSeq(models[m].edges, LAMBDA e : e.statement_id = str(s.matches_hash))

C3_MembersEdgeCount ==
    \A m \in DOMAIN models :
        Transformed(m) =>
            \A i \in DOMAIN models[m].statements :
                LET s == models[m].statements[i]
                    k == Len(s.members)
                    es == EdgesOfStatement(m, s)
                IN  IsMembersStatement(s) =>
                        /\ Len(es) = k * (k - 1)
                        /\ \A n \in DOMAIN es : es[n].polarity = None /\ es[n].directed
                        /\ \A a, b \in 1..k :
                               a # b =>
                                   \E n \in DOMAIN es :
                                       /\ es[n].source_node_name = s.members[a].name
                                       /\ es[n].target_node_name = s.members[b].name

(***************************************************************************)
(* C4: evidence dedup.  The transformer emits exactly one Evidence per     *)
(* distinct source_hash among the evidences of the matched statements; its *)
(* statement_ids holds, each once, the ids of the statements carrying that *)
(* source_hash, and its edge_ids holds, each once, the ids of the edges    *)
(* emitted from those statements.                                          *)
(***************************************************************************)
MatchedStatements(m) == statements_processed(models[m].statements)

CarriesHash(s, h) ==
    /\ "evidence" \in DOMAIN s
    /\ \E j \in DOMAIN s.evidence : str(s.evidence[j].source_hash) = h

SourceHashes(m) ==
    {h \in {str(11), str(12), str(13)} :
        \E i \in DOMAIN MatchedStatements(m) : CarriesHash(MatchedStatements(m)[i], h)}

StatementIdsOfHash(m, h) ==
    {str(MatchedStatements(m)[i].matches_hash) :
        i \in {i \in DOMAIN MatchedStatements(m) : CarriesHash(MatchedStatements(m)[i], h)}}

EdgeIdsOfStatements(m, sids) ==
    {models[m].edges[i].id :
        i \in {i \in DOMAIN models[m].edges : models[m].edges[i].statement_id \in sids}}

\* one Evidence per distinct source_hash, holding the right sets of ids
EvidenceSetsRight(m) ==
    LET evs == models[m].evidences
    IN  /\ NoDuplicates([i \in DOMAIN evs |-> evs[i].source_hash])
        /\ {evs[i].source_hash : i \in DOMAIN evs} = SourceHashes(m)
        /\ \A i \in DOMAIN evs :
               /\ Range(evs[i].statement_ids) = StatementIdsOfHash(m, evs[i].source_hash)
               /\ Range(evs[i].edge_ids) =
                      EdgeIdsOfStatements(m, StatementIdsOfHash(m, evs[i].source_hash))

C4_EvidenceDedup ==
    \A m \in DOMAIN models :
        Transformed(m) =>
            /\ EvidenceSetsRight(m)
            /\ \A i \in DOMAIN models[m].evidences :
                   /\ NoDuplicates(models[m].evidences[i].statement_ids)
                   /\ NoDuplicates(models[m].evidences[i].edge_ids)

\* what the code keeps: one Evidence per source_hash, right as sets of ids
C4_EvidenceDedupAsSets ==
    \A m \in DOMAIN models : Transformed(m) => EvidenceSetsRight(m)

(***************************************************************************)
(* C9: on an empty statement list the transformer raises no error and      *)
(* returns the model with empty nodes, edges, evidences and docs, whatever *)
(* print_opt is.                                                           *)
(***************************************************************************)
C9_EmptyInput ==
    \A m \in DOMAIN models :
        models[m].statements = <<>> =>
            /\ pc[m] # "failed"
            /\ pc[m] = "transformed" =>
                   /\ models[m].edges = <<>>
                   /\ models[m].nodes = <<>>
                   /\ models[m].evidences = <<>>
                   /\ models[m].docs = <<>>

\* what the code keeps: the empty lists when print_opt is false
C9_EmptyInputQuiet ==
    \A m \in DOMAIN models :
        (models[m].statements = <<>> /\ ~print_opt) =>
            /\ pc[m] # "failed"
            /\ pc[m] = "transformed" =>
                   /\ models[m].edges = <<>>
                   /\ models[m].nodes = <<>>
                   /\ models[m].evidences = <<>>
                   /\ models[m].docs = <<>>

(***************************************************************************)
(* C10: a matched statement that lacks a required field (no name or        *)
(* db_refs in its source or target role, no belief, type or matches_hash)  *)
(* is skipped alone: the transformer completes and emits what the other    *)
(* statements of the batch yield.                                          *)
(***************************************************************************)
LacksRequiredField(s) ==
    /\ Len(MatchIdx(s)) >= 1
    /\ MatchIdx(s)[1] \in 0..3
    /\ LET p == source_target_pairs[MatchIdx(s)[1] + 1]
       IN  \/ ~HasAll(s, TopKeys)
           \/ ~HasAll(s[p[1]], AgentKeys)
           \/ ~HasAll(s[p[2]], AgentKeys)

WithoutBroken(statements) == SelectSeq(statements, LAMBDA s : ~LacksRequiredField(s))

C10_MissingFieldContained ==
    \A m \in DOMAIN models :
        (\E i \in DOMAIN models[m].statements : LacksRequiredField(models[m].statements[i])) =>
            /\ pc[m] # "failed"
            /\ pc[m] = "transformed" =>
                   LET rest == transform_statements_to_node_edge_lists(
                                   [id |-> models[m].id,
                                    statements |-> WithoutBroken(models[m].statements)],
                                   FALSE).model
                   IN  /\ models[m].edges = rest.edges
                       /\ models[m].nodes = rest.nodes
                       /\ models[m].evidences = rest.evidences
                       /\ models[m].docs = rest.docs

(***************************************************************************)
(* Claims about the grounding tasks.                                       *)
(***************************************************************************)
AncestryDone == onto_pc \in {"ancestry", "groups"}

\* the canonicalized ancestry path of node n
PathOfNode(n) == nodeAtts[n].group_refs

\* two paths hold the same term at depth d (from 1) and differ before it
SplitLineage(p, q, d) ==
    /\ d <= Len(p)
    /\ d <= Len(q)
    /\ p[d] = q[d]
    /\ SubSeq(p, 1, d) # SubSeq(q, 1, d)

(***************************************************************************)
(* C5: hierarchy consistency.  After compute_onto_ancestry, whenever the   *)
(* paths of two nodes hold the same term at the same depth, the two paths  *)
(* are equal, element for element, from the root down to that depth; for   *)
(* every ontology, every order of the roots, every choice among equally    *)
(* short paths and every order of the nodes.                               *)
(***************************************************************************)
C5_HierarchyConsistency ==
    AncestryDone =>
        \A n1, n2 \in DOMAIN nodeAtts : \A d \in 1..Len(PathOfNode(n1)) :
            ~SplitLineage(PathOfNode(n1), PathOfNode(n2), d)

\* the shortest paths of two nodes met in a term below two different
\* lineages, and the pass rewrote one of them
C5_LineageRewritten ==
    /\ onto_pc = "ancestry"
    /\ \E n1, n2 \in DOMAIN nodeAtts : \E d \in 1..Len(ancestry[n1]) :
           /\ SplitLineage(ancestry[n1], ancestry[n2], d)
           /\ PathOfNode(n2) # ancestry[n2]

\* the position of the group with the given id (0 if there is none)
GroupWithId(id) ==
    IF \E g \in DOMAIN groups : groups[g].id = id
    THEN CHOOSE g \in DOMAIN groups : groups[g].id = id
    ELSE 0

\* following parent_id from group g ends at a group without parent within
\* the given number of steps
RECURSIVE ParentChainEnds(_, _)
ParentChainEnds(g, steps) ==
    IF g = 0 THEN FALSE
    ELSE IF groups[g].parent_id = None THEN TRUE
    ELSE IF steps = 0 THEN FALSE
    ELSE ParentChainEnds(GroupWithId(groups[g].parent_id[1]), steps - 1)

(***************************************************************************)
(* C6: group forest.  In the groups of generate_onto_groups, g.id is in    *)
(* p.children_ids iff g.parent_id = p.id, for all groups g and p; and the  *)
(* chain of parent_id from any group ends at a group whose parent_id is    *)
(* null (it has no cycle).                                                 *)
(***************************************************************************)
C6_GroupForest ==
    onto_pc = "groups" =>
        /\ \A g, p \in DOMAIN groups :
               (groups[g].id \in Range(groups[p].children_ids))
                   <=> (groups[g].parent_id = Some(groups[p].id))
        /\ \A g \in DOMAIN groups : ParentChainEnds(g, Len(groups))

\* a group with a parent and a child, and a group with two children
C6_ThreeLevels ==
    /\ onto_pc = "groups"
    /\ \E g, p \in DOMAIN groups :
           /\ groups[g].parent_id = Some(groups[p].id)
           /\ groups[p].parent_id # None
    /\ \E p \in DOMAIN groups : Len(groups[p].children_ids) > 1

(***************************************************************************)
(* C7: membership.  For every group g of generate_onto_groups,             *)
(* node_ids_direct(g) is a subset of node_ids_all(g), and the id of a node *)
(* is in node_ids_all(g) iff the term of g occurs in the canonicalized     *)
(* ancestry path of that node.                                             *)
(***************************************************************************)
C7_Membership ==
    onto_pc = "groups" =>
        \A g \in DOMAIN groups :
            /\ Range(groups[g].node_ids_direct) \subseteq Range(groups[g].node_ids_all)
            /\ \A n \in DOMAIN nodeAtts :
                   (nodeAtts[n].node_id \in Range(groups[g].node_ids_all))
                       <=> (groups[g].ref \in Range(PathOfNode(n)))

\* a group below the top with a direct member and a member grounded deeper
C7_DirectAndDeeper ==
    /\ onto_pc = "groups"
    /\ \E g \in DOMAIN groups :
           /\ groups[g].parent_id # None
           /\ Len(groups[g].node_ids_direct) > 0
           /\ Len(groups[g].node_ids_all) > Len(groups[g].node_ids_direct)

\* the ontology has a link from u to v
Linked(u, v) ==
    \E k \in DOMAIN ontology.links :
        ontology.links[k].source = u /\ ontology.links[k].target = v

\* no link leaves t
IsRoot(t) == \A k \in DOMAIN ontology.links : ontology.links[k].source # t

\* the terms within k links of a term of S
RECURSIVE Within(_, _)
Within(S, k) ==
    IF k = 0 THEN S
    ELSE Within(S \cup {v \in G_nodes(ontology) : \E u \in S : Linked(u, v)}, k - 1)

\* s reaches a root
ReachesRoot(s) == \E t \in Within({s}, Len(ontology.nodes)) : IsRoot(t)

\* the number of links from s to the nearest root
RootDistance(s) ==
    CHOOSE k \in 0..Len(ontology.nodes) :
        /\ \E t \in Within({s}, k) : IsRoot(t)
        /\ \A j \in 0..(k - 1) : \A t \in Within({s}, j) : ~IsRoot(t)

\* node n is grounded at a term of a non-trivial component that is no root
\* and reaches a root
BelowRoot(n) ==
    /\ nodeAtts[n].grounded_group
    /\ \E t \in G_nodes(ontology) :
           Linked(nodeAtts[n].db_ref_priority[1], t) \/ Linked(t, nodeAtts[n].db_ref_priority[1])
    /\ ~IsRoot(nodeAtts[n].db_ref_priority[1])
    /\ ReachesRoot(nodeAtts[n].db_ref_priority[1])

C11_EmptyInputTolerated ==
    (Len(model_nodes) = 0 \/ (Len(ontology.nodes) = 0 /\ Len(ontology.links) = 0)) =>
        /\ onto_pc # "failed"
        /\ onto_exc = "none"
        /\ onto_pc = "groups" =>
               /\ Len(model_nodes) = 0 => (nodeAtts = <<>> /\ groups = <<>>)
               /\ Len(ontology.nodes) = 0 =>
                      \A n \in DOMAIN nodeAtts : nodeAtts[n].group_refs = <<"not-grounded">>

\* the half of C11 the code keeps: with the empty ontology and at least one
\* node the three tasks complete and every node is not-grounded
C11_EmptyOntologyTolerated ==
    (Len(model_nodes) > 0 /\ Len(ontology.nodes) = 0 /\ Len(ontology.links) = 0) =>
        /\ onto_pc # "failed"
        /\ onto_pc \in {"ancestry", "groups"} =>
               \A n \in DOMAIN nodeAtts : nodeAtts[n].group_refs = <<"not-grounded">>

(***************************************************************************)
(* C12: node extraction.  After the transformer has run, there is exactly  *)
(* one node per name that is the source or the target of an emitted edge:  *)
(* no two nodes share a name and every node's name is on an edge.  No      *)
(* entry of a node's db_ids has the namespace TEXT or TEXT_NORM, and       *)
(* grounded_db is true exactly when db_ids is not empty.                   *)
(***************************************************************************)
C12_NodeExtraction ==
    \A m \in DOMAIN models :
        Transformed(m) =>
            LET nodes == models[m].nodes
                edges == models[m].edges
            IN  /\ \A i, j \in DOMAIN nodes : nodes[i].name = nodes[j].name => i = j
                /\ {nodes[i].name : i \in DOMAIN nodes}
                       = {edges[k].source_node_name : k \in DOMAIN edges}
                             \cup {edges[k].target_node_name : k \in DOMAIN edges}
                /\ \A i \in DOMAIN nodes :
                       /\ \A n \in DOMAIN nodes[i].db_ids :
                              nodes[i].db_ids[n].namespace \notin {"TEXT", "TEXT_NORM"}
                       /\ nodes[i].grounded_db <=> Len(nodes[i].db_ids) > 0

\* the node of model m with the given name
NodeNamed(m, name) ==
    models[m].nodes[CHOOSE i \in DOMAIN models[m].nodes : models[m].nodes[i].name = name]

\* A{HGNC:1} -Activation-> B{} gives node A grounded and node B not; next to
\* it T, which has text references only, is on an edge and is not grounded
C12_GroundedAndNot ==
    \E m \in DOMAIN models :
        /\ Transformed(m)
        /\ Len(models[m].statements) = 2
        /\ models[m].statements[1]
               = MkStatement([type |-> "Activation", belief |-> 90, subj |-> AgA,
                              obj |-> AgB, evidence |-> <<Ev1>>], 1)
        /\ models[m].statements[2]
               = MkStatement([type |-> "Inhibition", belief |-> 40, subj |-> AgT,
                              obj |-> AgA, evidence |-> <<Ev2>>], 2)
        /\ {models[m].nodes[i].name : i \in DOMAIN models[m].nodes} = {"A", "B", "T"}
        /\ NodeNamed(m, "A").grounded_db
        /\ NodeNamed(m, "A").db_ids = <<[namespace |-> "HGNC", id |-> "1"]>>
        /\ ~NodeNamed(m, "B").grounded_db
        /\ ~NodeNamed(m, "T").grounded_db
        /\ NodeNamed(m, "T").db_ids = <<>>

\* the six role patterns as key sets, in list order
RolePatterns == <<
    {"subj", "obj"},
    {"enz", "sub"},
    {"gef", "ras"},
    {"gap", "ras"},
    {"subj", "obj_from", "obj_to"},
    {"members"} >>

\* the place of the earliest role pattern whose keys statement s has, 0 if
\* it has the keys of none
FirstPattern(s) ==
    IF \A i \in DOMAIN RolePatterns : ~(RolePatterns[i] \subseteq DOMAIN s) THEN 0
    ELSE CHOOSE i \in DOMAIN RolePatterns :
             /\ RolePatterns[i] \subseteq DOMAIN s
             /\ \A j \in 1..(i - 1) : ~(RolePatterns[j] \subseteq DOMAIN s)

\* the source and target role of a two-role pattern
SourceRole(i) == <<"subj", "enz", "gef", "gap">>[i]
TargetRole(i) == <<"obj", "sub", "ras", "ras">>[i]

(***************************************************************************)
(* C13: two-role edge emission.  After the transformer has run, every      *)
(* statement whose earliest pattern is one of the four two-role patterns   *)
(* has exactly one edge; the edge is directed, goes from the entity of the *)
(* source role to the entity of the target role, and its polarity is, for  *)
(* (subj, obj), true when the type is Activation or IncreaseAmount and     *)
(* false otherwise, and null for (enz, sub), (gef, ras) and (gap, ras).    *)
(***************************************************************************)
C13_TwoRoleEdges ==
    \A m \in DOMAIN models :
        Transformed(m) =>
            \A i \in DOMAIN models[m].statements :
                LET s == models[m].statements[i]
                    p == FirstPattern(s)
                IN  p \in 1..4 =>
                        LET own == EdgesOfStatement(m, s)
                        IN  /\ Len(own) = 1
                            /\ own[1].directed = TRUE
                            /\ own[1].source_node_name = s[SourceRole(p)].name
                            /\ own[1].target_node_name = s[TargetRole(p)].name
                            /\ p = 1 => own[1].polarity
                                            = Some(s.type \in {"Activation", "IncreaseAmount"})
                            /\ p \in 2..4 => own[1].polarity = None

\* a batch with an Inhibition and a Gef statement: the first edge B -> C has
\* polarity false, the second A -> B has polarity null
C13_InhibitionAndGef ==
    \E m \in DOMAIN models :
        /\ Transformed(m)
        /\ Len(models[m].statements) = 2
        /\ FirstPattern(models[m].statements[1]) = 1
        /\ models[m].statements[1].type = "Inhibition"
        /\ FirstPattern(models[m].statements[2]) = 3
        /\ Len(models[m].edges) = 2
        /\ models[m].edges[1].source_node_name = "B"
        /\ models[m].edges[1].target_node_name = "C"
        /\ models[m].edges[1].polarity = Some(FALSE)
        /\ models[m].edges[2].source_node_name = "A"
        /\ models[m].edges[2].target_node_name = "B"
        /\ models[m].edges[2].polarity = None

(***************************************************************************)
(* C14: identifier overflow.  Encoding a local id of 2^28 or more fails:   *)
(* the harness, started on such an id, never comes to hold an encoded      *)
(* value.                                                                  *)
(***************************************************************************)
C14_OverflowFails ==
    id_local0 >= 2 ^ num_bits_local => id_pc \notin {"encoded", "decoded"}

\* what the value returned for an overflowing id does: its tag is not the
\* tag of the requested kind ...
C14_ForeignTag ==
    /\ id_pc = "encoded"
    /\ id_local0 >= 2 ^ num_bits_local
    /\ decode_namespace(id_ret.id) # map_type_namespace(id_type)

\* ... or it is the identifier of another kind and local id in range
C14_Collision ==
    /\ id_pc = "encoded"
    /\ id_local0 >= 2 ^ num_bits_local
    /\ \E t \in Range(obj_types) : \E l \in IdSamples :
           /\ l < 2 ^ num_bits_local
           /\ <<t, l>> # <<id_type, id_local0>>
           /\ encode_id(t, l) = id_ret.id

\* the statements of model m that carry the statement id sid
StatementsWithId(m, sid) ==
    {i \in DOMAIN models[m].statements :
        /\ "matches_hash" \in DOMAIN models[m].statements[i]
        /\ str(models[m].statements[i].matches_hash) = sid}

\* every edge and every evidence of model m stems from a statement that has
\* the keys of one of the six role patterns
OnlyFromMatching(m) ==
    /\ \A k \in DOMAIN models[m].edges :
           \E i \in StatementsWithId(m, models[m].edges[k].statement_id) :
               FirstPattern(models[m].statements[i]) # 0
    /\ \A k \in DOMAIN models[m].evidences :
           \A j \in DOMAIN models[m].evidences[k].statement_ids :
               \E i \in StatementsWithId(m, models[m].evidences[k].statement_ids[j]) :
                   FirstPattern(models[m].statements[i]) # 0
    /\ \A k \in DOMAIN models[m].nodes :
           \E e \in DOMAIN models[m].edges :
               models[m].nodes[k].name \in {models[m].edges[e].source_node_name,
                                            models[m].edges[e].target_node_name}

\* the number of role patterns whose keys statement s has
NumPatterns(s) == Cardinality({i \in DOMAIN RolePatterns : RolePatterns[i] \subseteq DOMAIN s})

\* a statement of model m that has the keys of several patterns has the
\* edges of the earliest one and no other
EarliestOnly(m) ==
    \A i \in DOMAIN models[m].statements :
        LET s == models[m].statements[i]
            p == FirstPattern(s)
            own == EdgesOfStatement(m, s)
        IN  NumPatterns(s) > 1 =>
                /\ p \in 1..4 =>
                       /\ Len(own) = 1
                       /\ own[1].source_node_name = s[SourceRole(p)].name
                       /\ own[1].target_node_name = s[TargetRole(p)].name
                /\ p = 5 =>
                       /\ Len(own) = 2
                       /\ \A k \in 1..2 : own[k].source_node_name = s.subj.name
                       /\ own[1].target_node_name = s.obj_from[1].name
                       /\ own[2].target_node_name = s.obj_to[1].name

\* no statement of model m has the keys of a role pattern
NoneMatches(m) ==
    /\ Len(models[m].statements) > 0
    /\ \A i \in DOMAIN models[m].statements : FirstPattern(models[m].statements[i]) = 0

(***************************************************************************)
(* C16: pattern filter and first match.  Edges, evidences and nodes stem   *)
(* only from statements whose keys include one of the six role patterns; a *)
(* statement that has the keys of none is dropped without error, so a run  *)
(* on statements that all match none does not fail and emits nothing; a    *)
(* statement that has the keys of several patterns is interpreted by the   *)
(* earliest one only.                                                      *)
(***************************************************************************)
C16_PatternFilter ==
    \A m \in DOMAIN models :
        /\ Transformed(m) => (OnlyFromMatching(m) /\ EarliestOnly(m))
        /\ NoneMatches(m) =>
               /\ pc[m] # "failed"
               /\ Transformed(m) => (models[m].edges = <<>> /\ models[m].evidences = <<>>
                                         /\ models[m].nodes = <<>>)

\* the part of C16 the code keeps: in a completed run everything stems from
\* matching statements and the earliest pattern decides
C16_FilterAndFirstMatch ==
    \A m \in DOMAIN models :
        Transformed(m) => (OnlyFromMatching(m) /\ EarliestOnly(m))

\* a completed run on a statement that has the keys of (subj, obj) and of
\* (enz, sub): its one edge goes from subj to obj
C16_TwoPatternsOneEdge ==
    \E m \in DOMAIN models :
        /\ Transformed(m)
        /\ \E i \in DOMAIN models[m].statements :
               /\ NumPatterns(models[m].statements[i]) = 2
               /\ FirstPattern(models[m].statements[i]) = 1
               /\ Len(EdgesOfStatement(m, models[m].statements[i])) = 1
               /\ EdgesOfStatement(m, models[m].statements[i])[1].source_node_name = "C"
               /\ EdgesOfStatement(m, models[m].statements[i])[1].target_node_name = "B"

(***************************************************************************)
(* C17: three-role edge emission.  After the transformer has run, every    *)
(* statement whose earliest pattern is (subj, obj_from, obj_to) has        *)
(* exactly two edges, both directed and both with the statement's id, type *)
(* and belief: first the edge from the subject to the first object-from    *)
(* entity with polarity false, then the edge from the subject to the       *)
(* first object-to entity with polarity true.                              *)
(***************************************************************************)
C17_ThreeRoleEdges ==
    \A m \in DOMAIN models :
        Transformed(m) =>
            \A i \in DOMAIN models[m].statements :
                LET s == models[m].statements[i]
                IN  FirstPattern(s) = 5 =>
                        LET own == EdgesOfStatement(m, s)
                        IN  /\ Len(own) = 2
                            /\ \A k \in 1..2 :
                                   /\ own[k].directed = TRUE
                                   /\ own[k].statement_id = str(s.matches_hash)
                                   /\ own[k].statement_type = s.type
                                   /\ own[k].belief = s.belief
                                   /\ own[k].source_node_name = s.subj.name
                            /\ own[1].target_node_name = s.obj_from[1].name
                            /\ own[1].polarity = Some(FALSE)
                            /\ own[2].target_node_name = s.obj_to[1].name
                            /\ own[2].polarity = Some(TRUE)
                            /\ \E k \in DOMAIN models[m].edges :
                                   /\ models[m].edges[k] = own[1]
                                   /\ models[m].edges[k + 1] = own[2]

\* a Conversion of A from B to C behind an Activation: the second and third
\* edge are A -> B with polarity false and A -> C with polarity true
C17_ConversionEdges ==
    \E m \in DOMAIN models :
        /\ Transformed(m)
        /\ Len(models[m].statements) = 2
        /\ FirstPattern(models[m].statements[1]) = 1
        /\ FirstPattern(models[m].statements[2]) = 5
        /\ Len(models[m].edges) = 3
        /\ models[m].edges[2].statement_type = "Conversion"
        /\ models[m].edges[2].source_node_name = "A"
        /\ models[m].edges[2].target_node_name = "B"
        /\ models[m].edges[2].polarity = Some(FALSE)
        /\ models[m].edges[3].statement_type = "Conversion"
        /\ models[m].edges[3].source_node_name = "A"
        /\ models[m].edges[3].target_node_name = "C"
        /\ models[m].edges[3].polarity = Some(TRUE)
        /\ models[m].edges[2].statement_id = models[m].edges[3].statement_id
        /\ models[m].edges[2].belief = 80

\* the evidentiary records of the matching statements of model m, in input
\* order: statement order, then the order within a statement
RecordsInOrder(m) ==
    Flatten([i \in DOMAIN MatchedStatements(m) |->
                IF "evidence" \in DOMAIN MatchedStatements(m)[i]
                THEN MatchedStatements(m)[i].evidence ELSE <<>>])

\* the records with source_hash h, in input order
RecordsOfHash(m, h) == SelectSeq(RecordsInOrder(m), LAMBDA r : str(r.source_hash) = h)

\* a field of a record, null when the record lacks it
FieldOrNone(rec, f) == IF f \in DOMAIN rec THEN rec[f] ELSE None

(***************************************************************************)
(* C18: first-seen evidence content.  After the transformer has run, every *)
(* evidence carries the text and the text_refs of the first record, in     *)
(* input order, that has its source_hash.                                  *)
(***************************************************************************)
C18_FirstSeenEvidence ==
    \A m \in DOMAIN models :
        Transformed(m) =>
            \A i \in DOMAIN models[m].evidences :
                LET first == RecordsOfHash(m, models[m].evidences[i].source_hash)[1]
                IN  /\ models[m].evidences[i].text = FieldOrNone(first, "text")
                    /\ models[m].evidences[i].text_refs = FieldOrNone(first, "text_refs")

\* what the code does: the evidence carries the content of the last record
C18_LastSeenEvidence ==
    \A m \in DOMAIN models :
        Transformed(m) =>
            \A i \in DOMAIN models[m].evidences :
                LET own == RecordsOfHash(m, models[m].evidences[i].source_hash)
                IN  /\ models[m].evidences[i].text = FieldOrNone(own[Len(own)], "text")
                    /\ models[m].evidences[i].text_refs = FieldOrNone(own[Len(own)], "text_refs")

\* two records with source_hash 11 in one statement, the first with the
\* text t1 and a PMID, the second with the text t2 and no text_refs: the
\* evidence has the second's content
C18_SecondRecordWins ==
    \E m \in DOMAIN models :
        /\ Transformed(m)
        /\ RecordsInOrder(m) = <<Ev1, Ev1b>>
        /\ Len(models[m].evidences) = 1
        /\ models[m].evidences[1].text = Some("t2")
        /\ models[m].evidences[1].text_refs = None

\* the evidences of model m that have text_refs
WithTextRefs(m) == {i \in DOMAIN models[m].evidences : models[m].evidences[i].text_refs # None}

\* text_refs as a mapping: its key/value pairs, whatever their order
RefPairs(m, i) == Range(models[m].evidences[i].text_refs[1])

\* the classes of structurally equal text_refs among the evidences
DocClasses(m) == {RefPairs(m, i) : i \in WithTextRefs(m)}

(***************************************************************************)
(* C19: doc dedup.  After the transformer has run there is exactly one doc *)
(* per class of evidences whose text_refs hold the same key/value pairs,   *)
(* in whatever key order; the doc's evidence_ids are the ids of the        *)
(* evidences of the class, and an evidence whose text_refs is null is in   *)
(* no doc.                                                                 *)
(***************************************************************************)
C19_DocDedup ==
    \A m \in DOMAIN models :
        Transformed(m) =>
            /\ Len(models[m].docs) = Cardinality(DocClasses(m))
            /\ \A c \in DocClasses(m) :
                   \E d \in DOMAIN models[m].docs :
                       Range(models[m].docs[d].evidence_ids)
                           = {models[m].evidences[i].id :
                                 i \in {j \in WithTextRefs(m) : RefPairs(m, j) = c}}
            /\ \A i \in DOMAIN models[m].evidences :
                   models[m].evidences[i].text_refs = None =>
                       \A d \in DOMAIN models[m].docs :
                           models[m].evidences[i].id \notin Range(models[m].docs[d].evidence_ids)

\* what the code does: one doc per class of text_refs that hold the same
\* pairs in the same order
C19_DocDedupInKeyOrder ==
    \A m \in DOMAIN models :
        Transformed(m) =>
            LET classes == {models[m].evidences[i].text_refs : i \in WithTextRefs(m)}
            IN  /\ Len(models[m].docs) = Cardinality(classes)
                /\ \A c \in classes :
                       \E d \in DOMAIN models[m].docs :
                           Range(models[m].docs[d].evidence_ids)
                               = {models[m].evidences[i].id :
                                     i \in {j \in WithTextRefs(m) :
                                               models[m].evidences[j].text_refs = c}}
                /\ \A i \in DOMAIN models[m].evidences :
                       models[m].evidences[i].text_refs = None =>
                           \A d \in DOMAIN models[m].docs :
                               models[m].evidences[i].id
                                   \notin Range(models[m].docs[d].evidence_ids)

\* two evidences whose text_refs are {PMID: 7, DOI: d} and {DOI: d, PMID: 7}
\* end in two docs
C19_TwoDocsForOneMapping ==
    \E m \in DOMAIN models :
        /\ Transformed(m)
        /\ Len(models[m].evidences) = 2
        /\ WithTextRefs(m) = {1, 2}
        /\ RefPairs(m, 1) = RefPairs(m, 2)
        /\ Len(models[m].docs) = 2
        /\ models[m].docs[1].evidence_ids = <<models[m].evidences[1].id>>
        /\ models[m].docs[2].evidence_ids = <<models[m].evidences[2].id>>

\* the ids of the edges of model m that satisfy Test, in edge order
EdgeIdsWhere(m, Test(_)) ==
    LET own == SelectSeq(models[m].edges, Test)
    IN  [i \in DOMAIN own |-> own[i].id]

(***************************************************************************)
(* C20: node-edge incidence.  After the transformer has run, the           *)
(* source_node_id and target_node_id of every edge are the ids of the      *)
(* nodes that carry the edge's source and target names; for every node,    *)
(* edge_ids_source lists the ids of the edges whose source_node_id is the  *)
(* node's id, edge_ids_target those whose target_node_id is the node's id, *)
(* and out_degree and in_degree are the lengths of the two lists.          *)
(***************************************************************************)
C20_Incidence ==
    \A m \in DOMAIN models :
        Transformed(m) =>
            /\ \A k \in DOMAIN models[m].edges :
                   /\ \E i \in DOMAIN models[m].nodes :
                          /\ models[m].nodes[i].name = models[m].edges[k].source_node_name
                          /\ models[m].nodes[i].id = models[m].edges[k].source_node_id
                   /\ \E i \in DOMAIN models[m].nodes :
                          /\ models[m].nodes[i].name = models[m].edges[k].target_node_name
                          /\ models[m].nodes[i].id = models[m].edges[k].target_node_id
            /\ \A i \in DOMAIN models[m].nodes :
                   LET n == models[m].nodes[i]
                   IN  /\ n.edge_ids_source
                           = EdgeIdsWhere(m, LAMBDA e : e.source_node_id = n.id)
                       /\ n.edge_ids_target
                           = EdgeIdsWhere(m, LAMBDA e : e.target_node_id = n.id)
                       /\ n.out_degree = Len(n.edge_ids_source)
                       /\ n.in_degree = Len(n.edge_ids_target)

\* A -> B followed by an edge from A to itself: node A is the source of
\* both edges and the target of the second, node B the target of the first
C20_LoopAndLink ==
    \E m \in DOMAIN models :
        /\ Transformed(m)
        /\ Len(models[m].edges) = 2
        /\ {models[m].nodes[i].name : i \in DOMAIN models[m].nodes} = {"A", "B"}
        /\ models[m].edges[1].source_node_id = NodeNamed(m, "A").id
        /\ models[m].edges[1].target_node_id = NodeNamed(m, "B").id
        /\ models[m].edges[2].source_node_id = NodeNamed(m, "A").id
        /\ models[m].edges[2].target_node_id = NodeNamed(m, "A").id
        /\ NodeNamed(m, "A").edge_ids_source = <<models[m].edges[1].id, models[m].edges[2].id>>
        /\ NodeNamed(m, "A").edge_ids_target = <<models[m].edges[2].id>>
        /\ NodeNamed(m, "A").out_degree = 2
        /\ NodeNamed(m, "A").in_degree = 1
        /\ NodeNamed(m, "B").edge_ids_source = <<>>
        /\ NodeNamed(m, "B").edge_ids_target = <<models[m].edges[1].id>>
        /\ NodeNamed(m, "B").in_degree = 1
        /\ NodeNamed(m, "B").out_degree = 0

(***************************************************************************)
(* C15: entity independence under concurrency.  In a flow run over several *)
(* models, whatever the interleaving of the mapped stage tasks, the record *)
(* of each model (nodes, edges, evidences, docs, namespaces_ordered,       *)
(* nodeAtts, groups), its stage and its error are among the outcomes the   *)
(* same stage tasks have when they run on that model alone, with the same  *)
(* ontology and print option; a task of one model leaves the records of    *)
(* the other models as they are.                                           *)
(***************************************************************************)
\* the record of a model as the flow starts with it
Extracted(model) ==
    [id |-> model.id, id_emmaa |-> model.id_emmaa, statements |-> model.statements]

\* the stage after a stage of the flow
StageAfter(stage) ==
    Stages[(CHOOSE i \in DOMAIN Stages : Stages[i] = stage) + 1]

\* one more stage task on a model that is processed alone
AloneStep(c, onto, popt) ==
    IF c.pc \in {"failed", "groups"} THEN {}
    ELSE {[pc |-> IF r.raised = "none" THEN StageAfter(c.pc) ELSE "failed",
           exc |-> r.raised,
           model |-> r.model] : r \in TaskResults(c.pc, c.model, onto, popt)}

RECURSIVE AloneRuns(_, _, _, _)
\* every position a model processed alone can be in after at most k tasks
AloneRuns(S, onto, popt, k) ==
    IF k = 0 THEN S
    ELSE S \cup AloneRuns(UNION {AloneStep(c, onto, popt) : c \in S}, onto, popt, k - 1)

\* the positions of the model processed alone, after at most k tasks, with
\* the ontology as transform_ontology leaves it
Alone(model, k) ==
    AloneRuns({[pc |-> "statements", exc |-> "none", model |-> Extracted(model)]},
              transform_ontology(ontology).ontology, print_opt, k)

\* the number of tasks that can lie behind a model at a position
TasksBehind(position) ==
    IF position = "failed" THEN Len(Stages) - 1
    ELSE (CHOOSE i \in DOMAIN Stages : Stages[i] = position) - 1

C15_Independence ==
    \A m \in DOMAIN models :
        [pc |-> pc[m], exc |-> exc[m], model |-> models[m]]
            \in Alone(models[m], TasksBehind(pc[m]))

\* a task of model m leaves every other model's record, stage and error alone
C15_OwnRecordOnly ==
    [][\A m \in DOMAIN models :
          (pc'[m] # pc[m]) =>
              \A k \in DOMAIN models \ {m} :
                  models'[k] = models[k] /\ pc'[k] = pc[k] /\ exc'[k] = exc[k]]_vars

\* two models with different statements, the first with its groups built
\* while the second has not been grounded yet
C15_OneAheadOfTheOther ==
    /\ pc[1] = "groups"
    /\ models[1].groups # <<>>
    /\ pc[2] \in {"transformed", "namespaces"}
    /\ Len(models[1].statements) = 2
    /\ Len(models[2].statements) = 1
    /\ Len(ontology.links) = 2

(***************************************************************************)
(* C21: ungroundable nodes.  Once the nodes are grounded, a node has       *)
(* grounded_group false, the ancestry ["not-grounded"] and node_group_level*)
(* 1 exactly when its db_ids list is empty or the namespace:id of its      *)
(* first db_ids entry is no id of an ontology node; a later db_ids entry   *)
(* that is a term does not ground the node; and this still holds after     *)
(* compute_onto_ancestry and generate_onto_groups.                         *)
(***************************************************************************)
\* the node has no reference or its first reference is no ontology term
Ungroundable(node) ==
    \/ Len(node.db_ids) = 0
    \/ db_ref(node.db_ids[1]) \notin ontology_ids(ontology)

\* the attributes of a node that is not grounded
MarkedNotGrounded(atts) ==
    /\ atts.grounded_group = FALSE
    /\ atts.group_refs = <<"not-grounded">>
    /\ atts.node_group_level = Some(1)

C21_Ungroundable ==
    onto_pc \in {"grounded", "ancestry", "groups"} =>
        /\ Len(nodeAtts) = Len(model_nodes)
        /\ \A i \in DOMAIN model_nodes :
               /\ MarkedNotGrounded(nodeAtts[i]) <=> Ungroundable(model_nodes[i])
               /\ nodeAtts[i].grounded_group <=> ~Ungroundable(model_nodes[i])

\* after compute_onto_ancestry: a node whose second reference is a term of
\* the ontology is not grounded, next to a grounded node with a path of
\* two terms or more
C21_LowerPriorityTerm ==
    /\ onto_pc = "ancestry"
    /\ \E i, j \in DOMAIN model_nodes :
           /\ Len(model_nodes[i].db_ids) = 2
           /\ db_ref(model_nodes[i].db_ids[1]) \notin ontology_ids(ontology)
           /\ db_ref(model_nodes[i].db_ids[2]) \in ontology_ids(ontology)
           /\ MarkedNotGrounded(nodeAtts[i])
           /\ nodeAtts[j].grounded_group
           /\ Len(nodeAtts[j].group_refs) >= 2

(***************************************************************************)
(* C22: no-root fallback.  A grounded node whose db_ref_priority lies in a *)
(* component of more than one term and reaches no root of it (a term       *)
(* without outgoing link), for instance in a cycle, has the ancestry       *)
(* [db_ref_priority] and node_group_level 1 after compute_onto_ancestry,   *)
(* and compute_onto_ancestry raises no error on a model with such a node.  *)
(***************************************************************************)
RECURSIVE Reached(_, _)
\* the terms reached from the terms of S along the links
Reached(onto, S) ==
    IF UNION {successors(onto, u) : u \in S} \subseteq S THEN S
    ELSE Reached(onto, S \cup UNION {successors(onto, u) : u \in S})

\* u is in a non-trivial component and reaches no term of out-degree 0
Stranded(onto, u) ==
    /\ Cardinality(weakly_connected_component(onto, u)) > 1
    /\ \A v \in Reached(onto, {u}) : out_degree(onto, v) >= 1

\* the nodes of the model that are grounded to a stranded term
StrandedNodes ==
    {i \in DOMAIN model_nodes :
        /\ ~Ungroundable(model_nodes[i])
        /\ Stranded(ontology, db_ref(model_nodes[i].db_ids[1]))}

C22_NoRootFallback ==
    StrandedNodes # {} =>
        /\ onto_exc = "none"
        /\ onto_pc # "failed"
        /\ onto_pc \in {"ancestry", "groups"} =>
               \A i \in StrandedNodes :
                   /\ nodeAtts[i].group_refs = <<db_ref(model_nodes[i].db_ids[1])>>
                   /\ nodeAtts[i].node_group_level = Some(1)

\* after compute_onto_ancestry: a node on a term whose component has a
\* root that the term does not reach, beside a node with a path of two
\* terms or more
C22_RootOutOfReach ==
    /\ onto_pc = "ancestry"
    /\ \E i \in StrandedNodes, j \in DOMAIN model_nodes :
           /\ weakly_connected_component(ontology, db_ref(model_nodes[i].db_ids[1]))
                  \cap Roots(ontology) # {}
           /\ nodeAtts[i].group_refs = <<db_ref(model_nodes[i].db_ids[1])>>
           /\ Len(nodeAtts[j].group_refs) >= 2

\* after compute_onto_ancestry: a node on a term of a component without root
C22_CycleWithoutRoot ==
    /\ onto_pc = "ancestry"
    /\ \E i \in StrandedNodes :
           /\ weakly_connected_component(ontology, db_ref(model_nodes[i].db_ids[1]))
                  \cap Roots(ontology) = {}
           /\ nodeAtts[i].group_refs = <<db_ref(model_nodes[i].db_ids[1])>>

(***************************************************************************)
(* C23: stage ordering.  In every run of the flow and for every model, the *)
(* stage tasks that have run on the model are, in the order in which they  *)
(* ran, a beginning of the list transform_statements_to_node_edge_lists,   *)
(* generate_ordered_namespace_list, sort_nodes_groundings,                 *)
(* ground_nodes_to_ontology, compute_onto_ancestry, generate_onto_groups,  *)
(* load_obj_to_s3 (groups), each at most once; a stage has run only when   *)
(* the stage before it has finished without error on the same model, so    *)
(* only the last of them can have failed and what the earlier ones store   *)
(* in the model is there.                                                  *)
(***************************************************************************)
\* the stages of a model, in the order of the flow
FlowStages == StageTasks \o <<"load_obj_to_s3">>

\* the stage tasks among the tasks run on model m, in the order they ran
StagesRun(m) == SelectSeq(ran[m], LAMBDA t : t \in Range(FlowStages))

\* what the first n stages store in the model
StoredBy(n) ==
    (IF n >= 1 THEN {"nodes", "edges", "evidences", "docs"} ELSE {})
    \cup (IF n >= 2 THEN {"namespaces_ordered"} ELSE {})
    \cup (IF n >= 4 THEN {"nodeAtts"} ELSE {})
    \cup (IF n >= 6 THEN {"groups"} ELSE {})

C23_StageOrder ==
    \A m \in DOMAIN models :
        /\ Len(StagesRun(m)) <= Len(FlowStages)
        /\ StagesRun(m) = SubSeq(FlowStages, 1, Len(StagesRun(m)))
        /\ StoredBy(Len(StagesRun(m)) - 1) \subseteq DOMAIN models[m]
        /\ pc[m] # "failed" => StoredBy(Len(StagesRun(m))) \subseteq DOMAIN models[m]

\* the groups of model 1 are in the bucket after all seven stages, while
\* model 2 has been through three of them
C23_OneLoadedOneSorted ==
    /\ StagesRun(1) = FlowStages
    /\ pc[1] = "loaded"
    /\ s3_path[1][1] \in DOMAIN s3
    /\ pc[2] = "sorted"
    /\ Len(StagesRun(2)) = 3

(***************************************************************************)
(* C24: xref removal before use.  In every run of the flow, when           *)
(* compute_onto_ancestry or generate_onto_groups is about to run on a      *)
(* model, and ever after one of them has run, transform_ontology has       *)
(* finished and the ontology object these tasks are given holds no link of *)
(* type xref.                                                              *)
(***************************************************************************)
\* compute_onto_ancestry or generate_onto_groups is the next task of model
\* m or has run on it
UsesOntologyGraph(m) ==
    \/ pc[m] \in {"grounded", "ancestry"}
    \/ {"compute_onto_ancestry", "generate_onto_groups"} \cap Range(ran[m]) # {}

C24_XrefRemovedBeforeUse ==
    \A m \in DOMAIN models :
        UsesOntologyGraph(m) =>
            /\ onto_pc = "preprocessed"
            /\ \A k \in DOMAIN ontology.links : ontology.links[k].type # "xref"

\* compute_onto_ancestry has run on model 1 with the ontology whose xref
\* link from C to A is gone: the node on HGNC:C has the path [HGNC:C]
C24_AncestryWithoutXref ==
    /\ pc[1] = "ancestry"
    /\ Len(ontology.links) = 2
    /\ \E i \in DOMAIN models[1].nodeAtts :
           /\ models[1].nodeAtts[i].db_ref_priority = Some("HGNC:C")
           /\ models[1].nodeAtts[i].group_refs = <<"HGNC:C">>

(***************************************************************************)
(* C25: purity of the identifier operations.  After transform_obj_ids has  *)
(* returned from encoding, the record or integer that was passed as obj    *)
(* still holds the id it held before the call; the encoded id is in the    *)
(* returned value only.                                                    *)
(***************************************************************************)
C25_ArgumentKeepsId ==
    id_pc = "encoded" => id_arg.id = id_local0

\* the part that holds: an integer argument is left as it was
C25_IntArgumentKeepsId ==
    (id_pc = "encoded" /\ ~id_arg.isdict) => id_arg.id = id_local0

(***************************************************************************)
(* C26: edge test status.  After test_edges, for every edge of the model   *)
(* tested is true exactly when some path of the model lists the id of the  *)
(* edge in its edge_ids, and test_path_ids of the edge is the list of the  *)
(* ids of the paths whose edge_ids hold the id of that edge, the empty     *)
(* list when the edge is not tested.                                       *)
(***************************************************************************)
\* the ids of the paths that list edge_id, in the order of the paths
PathsListing(paths, edge_id) ==
    LET hits == SelectSeq(List([p \in DOMAIN paths |-> p]),
                          LAMBDA p : edge_id \in Range(paths[p].edge_ids))
    IN  List([k \in DOMAIN hits |-> paths[hits[k]].id])

C26_EdgeTestStatus ==
    \A m \in DOMAIN models :
        pc[m] = "tested" =>
            \A e \in DOMAIN models[m].edges :
                LET edge == models[m].edges[e]
                IN  /\ edge.tested =
                           Some(PathsListing(models[m].paths, edge.id) # <<>>)
                    /\ "test_path_ids" \in DOMAIN edge
                    /\ edge.test_path_ids = PathsListing(models[m].paths, edge.id)

\* the part that holds: tested is true exactly for the edges that a path
\* lists
C26_TestedIffListed ==
    \A m \in DOMAIN models :
        pc[m] = "tested" =>
            \A e \in DOMAIN models[m].edges :
                models[m].edges[e].tested =
                    Some(PathsListing(models[m].paths, models[m].edges[e].id) # <<>>)

\* test_edges has run on a model with a tested and an untested edge
C26_TestedAndUntested ==
    /\ pc[1] = "tested"
    /\ \E e, f \in DOMAIN models[1].edges :
           /\ models[1].edges[e].tested = Some(TRUE)
           /\ models[1].edges[f].tested = Some(FALSE)

(***************************************************************************)
(* C27: direct membership is a partition.  After generate_onto_groups      *)
(* every node of the model is in node_ids_direct of exactly one group: the *)
(* group of the last term of its ancestry path, which is db_ref_priority   *)
(* of the node when the node is grounded and not-grounded otherwise.       *)
(***************************************************************************)
\* the groups that list node n as a direct member
DirectGroupsOf(n) ==
    {g \in DOMAIN groups : nodeAtts[n].node_id \in Range(groups[g].node_ids_direct)}

\* the term direct membership is by
DirectTerm(n) ==
    IF nodeAtts[n].grounded_group THEN nodeAtts[n].db_ref_priority[1] ELSE "not-grounded"

C27_DirectPartition ==
    onto_pc = "groups" =>
        \A n \in DOMAIN nodeAtts :
            /\ Cardinality(DirectGroupsOf(n)) = 1
            /\ \A g \in DirectGroupsOf(n) :
                   /\ groups[g].ref = PathOfNode(n)[Len(PathOfNode(n))]
                   /\ groups[g].ref = DirectTerm(n)
                   /\ Cardinality({k \in DOMAIN groups[g].node_ids_direct :
                          groups[g].node_ids_direct[k] = nodeAtts[n].node_id}) = 1

\* a node grounded below the top of its path next to a node that is not
\* grounded
C27_DeepAndNotGrounded ==
    /\ onto_pc = "groups"
    /\ \E n1, n2 \in DOMAIN nodeAtts :
           /\ nodeAtts[n1].grounded_group
           /\ Len(PathOfNode(n1)) > 1
           /\ ~nodeAtts[n2].grounded_group
           /\ DirectGroupsOf(n1) # DirectGroupsOf(n2)

(***************************************************************************)
(* C28: the hierarchy-consistency pass keeps the shape of the paths.  For  *)
(* every node the path after the pass is as long as the path before it and *)
(* ends at the same term, node_group_level is the length of the path after *)
(* the pass, and every term of the rewritten path has a link of the        *)
(* ontology to the term before it.                                         *)
(***************************************************************************)
C28_PassKeepsShape ==
    AncestryDone =>
        \A n \in DOMAIN nodeAtts :
            /\ Len(PathOfNode(n)) = Len(ancestry[n])
            /\ PathOfNode(n)[Len(PathOfNode(n))] = ancestry[n][Len(ancestry[n])]
            /\ nodeAtts[n].node_group_level = Some(Len(PathOfNode(n)))
            /\ \A k \in 2..Len(PathOfNode(n)) : Linked(PathOfNode(n)[k], PathOfNode(n)[k - 1])

\* the pass gave a path of four terms another term below its root
C28_MiddleReplaced ==
    /\ onto_pc = "ancestry"
    /\ \E n \in DOMAIN nodeAtts :
           /\ Len(ancestry[n]) = 4
           /\ PathOfNode(n)[1] = ancestry[n][1]
           /\ PathOfNode(n)[2] # ancestry[n][2]
           /\ PathOfNode(n)[3] = ancestry[n][3]

(***************************************************************************)
(* C29: unique parent and levels.  After compute_onto_ancestry and         *)
(* generate_onto_groups every term is at one depth in all the paths that   *)
(* hold it; for every group g with a parent, level(g) = level(parent) + 1, *)
(* the term of the parent is right before the term of g in every path that *)
(* holds the term of g, and node_ids_all(g) is a subset of                 *)
(* node_ids_all(parent); parent_id is null exactly for the groups of       *)
(* level 0.                                                                *)
(***************************************************************************)
\* the places where the paths hold term t: node and depth (from 1)
PlacesOf(t) ==
    {<<n, k>> \in (DOMAIN nodeAtts) \X (1..(Len(ontology.nodes) + 1)) :
        k <= Len(PathOfNode(n)) /\ PathOfNode(n)[k] = t}

C29_UniqueParentAndLevels ==
    onto_pc = "groups" =>
        /\ \A g \in DOMAIN groups :
               \A a, b \in PlacesOf(groups[g].ref) : a[2] = b[2]
        /\ \A g \in DOMAIN groups :
               (groups[g].parent_id = None) <=> (groups[g].level = 0)
        /\ \A g \in DOMAIN groups :
               groups[g].parent_id # None =>
                   /\ GroupWithId(groups[g].parent_id[1]) # 0
                   /\ groups[g].level =
                          groups[GroupWithId(groups[g].parent_id[1])].level + 1
                   /\ \A a \in PlacesOf(groups[g].ref) :
                          /\ a[2] > 1
                          /\ PathOfNode(a[1])[a[2] - 1] =
                                 groups[GroupWithId(groups[g].parent_id[1])].ref
                   /\ Range(groups[g].node_ids_all) \subseteq
                          Range(groups[GroupWithId(groups[g].parent_id[1])].node_ids_all)

\* a group of level 2 whose term is in the paths of two nodes, one of them
\* rewritten by the consistency pass
C29_SharedTermAtLevelTwo ==
    /\ onto_pc = "groups"
    /\ \E g \in DOMAIN groups :
           /\ groups[g].level = 2
           /\ Len(groups[g].node_ids_all) = 2
           /\ \E a \in PlacesOf(groups[g].ref) : PathOfNode(a[1]) # ancestry[a[1]]

(***************************************************************************)
(* C30: the cross-references of edges, evidences and docs are symmetric.   *)
(* After the transformer, for every edge e, evidence v and doc d of a      *)
(* model, v.id is in e.evidence_ids iff e.id is in v.edge_ids, d.id is in  *)
(* e.doc_ids iff e.id is in d.edge_ids, and every id listed in an          *)
(* evidence_ids, edge_ids or doc_ids field is the id of a record of that   *)
(* kind emitted for the same model.                                        *)
(***************************************************************************)
\* the ids of the records of a list that carry the id of model m
IdsEmitted(m, records) ==
    {records[i].id : i \in {j \in DOMAIN records : records[j].model_id = models[m].id}}

C30_CrossReferences ==
    \A m \in DOMAIN models :
        pc[m] = "transformed" =>
            /\ \A e \in DOMAIN models[m].edges :
                   /\ \A v \in DOMAIN models[m].evidences :
                          (models[m].evidences[v].id \in Range(models[m].edges[e].evidence_ids))
                              <=> (models[m].edges[e].id
                                       \in Range(models[m].evidences[v].edge_ids))
                   /\ \A d \in DOMAIN models[m].docs :
                          (models[m].docs[d].id \in Range(models[m].edges[e].doc_ids))
                              <=> (models[m].edges[e].id \in Range(models[m].docs[d].edge_ids))
                   /\ Range(models[m].edges[e].evidence_ids)
                          \subseteq IdsEmitted(m, models[m].evidences)
                   /\ Range(models[m].edges[e].doc_ids) \subseteq IdsEmitted(m, models[m].docs)
            /\ \A v \in DOMAIN models[m].evidences :
                   /\ Range(models[m].evidences[v].edge_ids)
                          \subseteq IdsEmitted(m, models[m].edges)
                   /\ Range(models[m].evidences[v].doc_ids)
                          \subseteq IdsEmitted(m, models[m].docs)
            /\ \A d \in DOMAIN models[m].docs :
                   /\ Range(models[m].docs[d].edge_ids) \subseteq IdsEmitted(m, models[m].edges)
                   /\ Range(models[m].docs[d].evidence_ids)
                          \subseteq IdsEmitted(m, models[m].evidences)

\* two docs with different edges, and an evidence that is on two edges
C30_TwoDocsSharedEvidence ==
    /\ pc[1] = "transformed"
    /\ \E d1, d2 \in DOMAIN models[1].docs :
           Range(models[1].docs[d1].edge_ids) # Range(models[1].docs[d2].edge_ids)
    /\ \E v \in DOMAIN models[1].evidences :
           Cardinality(Range(models[1].evidences[v].edge_ids)) > 1

====
